---- MODULE Spec2Model ----
(***************************************************************************)
(* A model of the dnsio DNS wire codec: the Message codec (decode_header,  *)
(* decode_name, decode_question, decode_resource_record(s),                *)
(* decode_message and their encoders), the offset-based Ref layer          *)
(* (decode_message_ref and the materialisation of its refs) and the        *)
(* MessageBuilder.                                                         *)
(*                                                                         *)
(* A buffer &[u8] is a sequence of bytes 0..255.  The source indexes from  *)
(* 0, sequences from 1: the byte data[i] of the source is data[i + 1].     *)
(* A Result is a record with the fields ok and err (err = "None" on Ok).   *)
(* An index or slice outside a buffer, or a write outside a fixed array,   *)
(* is a Rust panic: it is the outcome err = "Panic".                       *)
(***************************************************************************)
EXTENDS Integers, Sequences, FiniteSets, TLC

VARIABLES
    mode,       \* which family of operations this behaviour exercises
    pc,         \* position inside that family
    buf,        \* the caller's input buffer
    start,      \* start offset handed to decode_name
    hdr,        \* result of decode_header(buf)
    nres,       \* result of decode_name(buf, start)
    msg,        \* result of decode_message(buf)
    mref,       \* result of decode_message_ref(buf)
    mat,        \* result of MessageRef::decode_message(buf) and of the per-entry refs
    enc,        \* result of encode_message(msg)
    builder,    \* the MessageBuilder being assembled
    out,        \* result of build_encode_direct
    built,      \* result of build: the buffer it left and the Message it returned
    arg,        \* the value handed to an encoder: a header or a name
    loop,       \* a name loop run one iteration at a time: its locals and its result
    rec,        \* result of decoding one entry on its own: a record or a question
    meas        \* what the Ref layer measures at (buf, start): a name, a record

vars ==
    <<mode, pc, buf, start, hdr, nres, msg, mref, mat, enc, builder, out, built, arg, loop,
      rec, meas>>

-----------------------------------------------------------------------------
(* Integer helpers: the fixed-width operations of the source.              *)

Pow2(n) == 2 ^ n

U8(x) == x % 256

U16(x) == x % 65536

Shr(x, n) == x \div Pow2(n)

RECURSIVE BitAnd(_, _)
BitAnd(a, b) ==
    IF a = 0 \/ b = 0 THEN 0
    ELSE (IF a % 2 = 1 /\ b % 2 = 1 THEN 1 ELSE 0) + 2 * BitAnd(a \div 2, b \div 2)

RECURSIVE BitOr(_, _)
BitOr(a, b) ==
    IF a = 0 THEN b
    ELSE IF b = 0 THEN a
    ELSE (IF a % 2 = 1 \/ b % 2 = 1 THEN 1 ELSE 0) + 2 * BitOr(a \div 2, b \div 2)

Min(a, b) == IF a <= b THEN a ELSE b

saturating_add(a, b) == Min(65535, a + b)

(* data[i] of the source, for an index the caller has shown to be in range. *)
At(data, i) == data[i + 1]

(* &data[a..b] of the source, for a range the caller has shown to be valid. *)
Slice(data, a, b) == SubSeq(data, a + 1, b)

(* Whether data[a..b] (indices a .. b-1) lies inside data.                  *)
InBuf(data, a, b) == a <= b /\ b <= Len(data)

BE16(h, l) == BitOr(U16(h * 256), l)

-----------------------------------------------------------------------------
(* Error kinds and name elements.                                          *)

InvalidHeaderLength == "InvalidHeaderLength"

InsufficientData == "InsufficientData"

InvalidDomainName == "InvalidDomainName"

Panic == "Panic"

ErrorKinds == {InvalidHeaderLength, InsufficientData, InvalidDomainName}

Label(length, data) == [kind |-> "Label", length |-> length, data |-> data, ptr |-> 0]

Pointer(p) == [kind |-> "Pointer", length |-> 0, data |-> <<>>, ptr |-> p]

Root == [kind |-> "Root", length |-> 0, data |-> <<>>, ptr |-> 0]

Reserved == [kind |-> "Reserved", length |-> 0, data |-> <<>>, ptr |-> 0]

-----------------------------------------------------------------------------
(* Header codec.                                                           *)

HEADER_LEN == 12

flags_from_u16(value) ==
    [qr      |-> BitAnd(value, 32768) # 0,
     op_code |-> BitAnd(Shr(value, 11), 15),
     aa      |-> BitAnd(value, 1024) # 0,
     tc      |-> BitAnd(value, 512) # 0,
     rd      |-> BitAnd(value, 256) # 0,
     ra      |-> BitAnd(value, 128) # 0,
     z       |-> BitAnd(Shr(value, 4), 7),
     r_code  |-> BitAnd(value, 15)]

flags_to_u16(flags) ==
    LET v0 == IF flags.qr THEN 32768 ELSE 0
        v1 == BitOr(v0, U16(BitAnd(flags.op_code, 15) * Pow2(11)))
        v2 == IF flags.aa THEN BitOr(v1, 1024) ELSE v1
        v3 == IF flags.tc THEN BitOr(v2, 512) ELSE v2
        v4 == IF flags.rd THEN BitOr(v3, 256) ELSE v3
        v5 == IF flags.ra THEN BitOr(v4, 128) ELSE v4
        v6 == BitOr(v5, U16(BitAnd(flags.z, 7) * Pow2(4)))
    IN  BitOr(v6, BitAnd(flags.r_code, 15))

NoHeader ==
    [id |-> 0, flags |-> flags_from_u16(0), qd_count |-> 0, an_count |-> 0,
     ns_count |-> 0, ar_count |-> 0]

HeaderErr(e) == [ok |-> FALSE, err |-> e, header |-> NoHeader, len |-> 0]

(* decode_header with the length check one byte short.                     *)
decode_header_off_by_one(data) ==
    IF Len(data) < HEADER_LEN - 1 THEN HeaderErr(InvalidHeaderLength)
    ELSE IF ~InBuf(data, 0, 12) THEN HeaderErr(Panic)
    ELSE [ok |-> TRUE, err |-> "None",
          header |-> [id       |-> BE16(At(data, 0), At(data, 1)),
                      flags    |-> flags_from_u16(BE16(At(data, 2), At(data, 3))),
                      qd_count |-> BE16(At(data, 4), At(data, 5)),
                      an_count |-> BE16(At(data, 6), At(data, 7)),
                      ns_count |-> BE16(At(data, 8), At(data, 9)),
                      ar_count |-> BE16(At(data, 10), At(data, 11))],
          len |-> 12]

decode_header(data) ==
    IF Len(data) < HEADER_LEN THEN HeaderErr(InvalidHeaderLength)
    ELSE IF ~InBuf(data, 0, 12) THEN HeaderErr(Panic)
    ELSE [ok |-> TRUE, err |-> "None",
          header |-> [id       |-> BE16(At(data, 0), At(data, 1)),
                      flags    |-> flags_from_u16(BE16(At(data, 2), At(data, 3))),
                      qd_count |-> BE16(At(data, 4), At(data, 5)),
                      an_count |-> BE16(At(data, 6), At(data, 7)),
                      ns_count |-> BE16(At(data, 8), At(data, 9)),
                      ar_count |-> BE16(At(data, 10), At(data, 11))],
          len |-> 12]

-----------------------------------------------------------------------------
(* Name codec: decode_name never follows a pointer.                        *)

NameErr(e) == [ok |-> FALSE, err |-> e, elements |-> <<>>, len |-> 0]

NameOk(elements, n) == [ok |-> TRUE, err |-> "None", elements |-> elements, len |-> n]

(* decode_name ending the name at a reserved length byte.                  *)
RECURSIVE decode_name_loop_reserved_ends(_, _, _, _)
decode_name_loop_reserved_ends(data, message_offset, offset, elements) ==
    IF message_offset + offset >= Len(data) THEN NameErr(InsufficientData)
    ELSE
    LET length == At(data, message_offset + offset)
        off1 == offset + 1
    IN  IF length = 0 THEN NameOk(Append(elements, Root), off1)
        ELSE IF length >= 192 THEN
            IF message_offset + off1 >= Len(data) THEN NameErr(InsufficientData)
            ELSE
            LET second_byte == At(data, message_offset + off1)
                pointer_value == BitOr(U16(BitAnd(length, 63) * 256), second_byte)
            IN  NameOk(Append(elements, Pointer(pointer_value)), off1 + 1)
        ELSE IF length >= 64 THEN NameOk(Append(elements, Reserved), off1)
        ELSE IF message_offset + off1 + length > Len(data) THEN NameErr(InsufficientData)
        ELSE
            decode_name_loop_reserved_ends(data, message_offset, off1 + length,
                Append(elements,
                       Label(length, Slice(data, message_offset + off1,
                                           message_offset + off1 + length))))

(* decode_name keeping seven bits of the first pointer byte.               *)
RECURSIVE decode_name_loop_wide_mask(_, _, _, _)
decode_name_loop_wide_mask(data, message_offset, offset, elements) ==
    IF message_offset + offset >= Len(data) THEN NameErr(InsufficientData)
    ELSE
    LET length == At(data, message_offset + offset)
        off1 == offset + 1
    IN  IF length = 0 THEN NameOk(Append(elements, Root), off1)
        ELSE IF length >= 192 THEN
            IF message_offset + off1 >= Len(data) THEN NameErr(InsufficientData)
            ELSE
            LET second_byte == At(data, message_offset + off1)
                pointer_value == BitOr(U16(BitAnd(length, 127) * 256), second_byte)
            IN  NameOk(Append(elements, Pointer(pointer_value)), off1 + 1)
        ELSE IF length >= 64 THEN
            decode_name_loop_wide_mask(data, message_offset, off1, Append(elements, Reserved))
        ELSE IF message_offset + off1 + length > Len(data) THEN NameErr(InsufficientData)
        ELSE
            decode_name_loop_wide_mask(data, message_offset, off1 + length,
                Append(elements,
                       Label(length, Slice(data, message_offset + off1,
                                           message_offset + off1 + length))))

(* decode_name leaving the root's own byte out of the consumed count.      *)
RECURSIVE decode_name_loop_root_uncounted(_, _, _, _)
decode_name_loop_root_uncounted(data, message_offset, offset, elements) ==
    IF message_offset + offset >= Len(data) THEN NameErr(InsufficientData)
    ELSE
    LET length == At(data, message_offset + offset)
        off1 == offset + 1
    IN  IF length = 0 THEN NameOk(Append(elements, Root), offset)
        ELSE IF length >= 192 THEN
            IF message_offset + off1 >= Len(data) THEN NameErr(InsufficientData)
            ELSE
            LET second_byte == At(data, message_offset + off1)
                pointer_value == BitOr(U16(BitAnd(length, 63) * 256), second_byte)
            IN  NameOk(Append(elements, Pointer(pointer_value)), off1 + 1)
        ELSE IF length >= 64 THEN
            decode_name_loop_root_uncounted(data, message_offset, off1,
                                            Append(elements, Reserved))
        ELSE IF message_offset + off1 + length > Len(data) THEN NameErr(InsufficientData)
        ELSE
            decode_name_loop_root_uncounted(data, message_offset, off1 + length,
                Append(elements,
                       Label(length, Slice(data, message_offset + off1,
                                           message_offset + off1 + length))))

(* decode_name looking at the pointer's target: a pointer to a root byte   *)
(* is resolved to the root.                                                *)
RECURSIVE decode_name_loop_resolving_root(_, _, _, _)
decode_name_loop_resolving_root(data, message_offset, offset, elements) ==
    IF message_offset + offset >= Len(data) THEN NameErr(InsufficientData)
    ELSE
    LET length == At(data, message_offset + offset)
        off1 == offset + 1
    IN  IF length = 0 THEN NameOk(Append(elements, Root), off1)
        ELSE IF length >= 192 THEN
            IF message_offset + off1 >= Len(data) THEN NameErr(InsufficientData)
            ELSE
            LET second_byte == At(data, message_offset + off1)
                pointer_value == BitOr(U16(BitAnd(length, 63) * 256), second_byte)
            IN  IF pointer_value < Len(data) /\ At(data, pointer_value) = 0
                THEN NameOk(Append(elements, Root), off1 + 1)
                ELSE NameOk(Append(elements, Pointer(pointer_value)), off1 + 1)
        ELSE IF length >= 64 THEN
            decode_name_loop_resolving_root(data, message_offset, off1,
                                            Append(elements, Reserved))
        ELSE IF message_offset + off1 + length > Len(data) THEN NameErr(InsufficientData)
        ELSE
            decode_name_loop_resolving_root(data, message_offset, off1 + length,
                Append(elements,
                       Label(length, Slice(data, message_offset + off1,
                                           message_offset + off1 + length))))

(* decode_name counting one byte for a pointer: what follows the name is   *)
(* then read from the pointer's second byte on.                            *)
RECURSIVE decode_name_loop_pointer_one_byte(_, _, _, _)
decode_name_loop_pointer_one_byte(data, message_offset, offset, elements) ==
    IF message_offset + offset >= Len(data) THEN NameErr(InsufficientData)
    ELSE
    LET length == At(data, message_offset + offset)
        off1 == offset + 1
    IN  IF length = 0 THEN NameOk(Append(elements, Root), off1)
        ELSE IF length >= 192 THEN
            IF message_offset + off1 >= Len(data) THEN NameErr(InsufficientData)
            ELSE
            LET second_byte == At(data, message_offset + off1)
                pointer_value == BitOr(U16(BitAnd(length, 63) * 256), second_byte)
            IN  NameOk(Append(elements, Pointer(pointer_value)), off1)
        ELSE IF length >= 64 THEN
            decode_name_loop_pointer_one_byte(data, message_offset, off1,
                                              Append(elements, Reserved))
        ELSE IF length > 63 THEN NameErr(InvalidDomainName)
        ELSE IF message_offset + off1 + length > Len(data) THEN NameErr(InsufficientData)
        ELSE
            decode_name_loop_pointer_one_byte(data, message_offset, off1 + length,
                Append(elements,
                       Label(length, Slice(data, message_offset + off1,
                                           message_offset + off1 + length))))

(* decode_name refusing a length byte of the reserved band.                 *)
RECURSIVE decode_name_loop_rejecting_reserved(_, _, _, _)
decode_name_loop_rejecting_reserved(data, message_offset, offset, elements) ==
    IF message_offset + offset >= Len(data) THEN NameErr(InsufficientData)
    ELSE
    LET length == At(data, message_offset + offset)
        off1 == offset + 1
    IN  IF length = 0 THEN NameOk(Append(elements, Root), off1)
        ELSE IF length >= 192 THEN
            IF message_offset + off1 >= Len(data) THEN NameErr(InsufficientData)
            ELSE
            LET second_byte == At(data, message_offset + off1)
                pointer_value == BitOr(U16(BitAnd(length, 63) * 256), second_byte)
            IN  NameOk(Append(elements, Pointer(pointer_value)), off1 + 1)
        ELSE IF length > 63 THEN NameErr(InvalidDomainName)
        ELSE IF message_offset + off1 + length > Len(data) THEN NameErr(InsufficientData)
        ELSE
            decode_name_loop_rejecting_reserved(data, message_offset, off1 + length,
                Append(elements,
                       Label(length, Slice(data, message_offset + off1,
                                           message_offset + off1 + length))))

RECURSIVE decode_name_loop(_, _, _, _)
decode_name_loop(data, message_offset, offset, elements) ==
    IF message_offset + offset >= Len(data) THEN NameErr(InsufficientData)
    ELSE
    LET length == At(data, message_offset + offset)
        off1 == offset + 1
    IN  IF length = 0 THEN NameOk(Append(elements, Root), off1)
        ELSE IF length >= 192 THEN
            IF message_offset + off1 >= Len(data) THEN NameErr(InsufficientData)
            ELSE
            LET second_byte == At(data, message_offset + off1)
                pointer_value == BitOr(U16(BitAnd(length, 63) * 256), second_byte)
            IN  NameOk(Append(elements, Pointer(pointer_value)), off1 + 1)
        ELSE IF length >= 64 THEN
            decode_name_loop(data, message_offset, off1, Append(elements, Reserved))
        ELSE IF length > 63 THEN NameErr(InvalidDomainName)
        ELSE IF message_offset + off1 + length > Len(data) THEN NameErr(InsufficientData)
        ELSE
            decode_name_loop(data, message_offset, off1 + length,
                Append(elements,
                       Label(length, Slice(data, message_offset + off1,
                                           message_offset + off1 + length))))

decode_name(data, message_offset) == decode_name_loop(data, message_offset, 0, <<>>)

-----------------------------------------------------------------------------
(* Type and class codes.  The enumerations and their byte mappings belong  *)
(* to the dns_message value types; a type or class is its 16-bit code.     *)

from_question_bytes(h, l) == BE16(h, l)

to_question_bytes(code) == <<U8(Shr(code, 8)), U8(code)>>

from_rr_bytes(h, l) == BE16(h, l)

to_rr_bytes(code) == <<U8(Shr(code, 8)), U8(code)>>

-----------------------------------------------------------------------------
(* Question codec.  data is the slice that starts at the section,          *)
(* message_data the whole message, message_offset the slice's position.    *)

QuestionsErr(e) == [ok |-> FALSE, err |-> e, questions |-> <<>>, len |-> 0]

(* One question, once its name has been decoded: type, class, push.         *)
RECURSIVE decode_question_loop(_, _, _, _, _, _)
decode_question_loop(data, message_data, message_offset, n, offset, questions) ==
    IF n = 0 THEN [ok |-> TRUE, err |-> "None", questions |-> questions, len |-> offset]
    ELSE
    LET nm == decode_name(message_data, message_offset + offset)
        off1 == offset + nm.len
    IN  IF ~nm.ok THEN QuestionsErr(nm.err)
        ELSE IF off1 + 4 > Len(data) THEN QuestionsErr(InsufficientData)
        ELSE IF ~InBuf(data, off1, off1 + 4) THEN QuestionsErr(Panic)
        ELSE
            decode_question_loop(data, message_data, message_offset, n - 1, off1 + 4,
                Append(questions,
                       [q_name  |-> nm.elements,
                        q_type  |-> from_question_bytes(At(data, off1), At(data, off1 + 1)),
                        q_class |-> from_question_bytes(At(data, off1 + 2), At(data, off1 + 3))]))

decode_question(data, message_data, message_offset, qd_count) ==
    IF qd_count = 0 THEN [ok |-> TRUE, err |-> "None", questions |-> <<>>, len |-> 0]
    ELSE decode_question_loop(data, message_data, message_offset, qd_count, 0, <<>>)

-----------------------------------------------------------------------------
(* Resource record codec.                                                  *)

NoRecord ==
    [rr_name |-> <<>>, rr_type |-> 0, rr_class |-> 0, rr_ttl |-> [hi |-> 0, lo |-> 0],
     rr_rd_length |-> 0, rr_data |-> <<>>]

RecordErr(e) == [ok |-> FALSE, err |-> e, record |-> NoRecord, len |-> 0]

(* A u32 is held as its two 16-bit halves, so that no intermediate value   *)
(* exceeds 31 bits: (b0 << 24) | (b1 << 16) | (b2 << 8) | b3.              *)
BE32(b0, b1, b2, b3) == [hi |-> BE16(b0, b1), lo |-> BE16(b2, b3)]

(* (x >> 24) as u8, (x >> 16) as u8, (x >> 8) as u8, x as u8 of a u32.     *)
U32Bytes(x) == <<U8(Shr(x.hi, 8)), U8(x.hi), U8(Shr(x.lo, 8)), U8(x.lo)>>

(* decode_resource_record without the check of RDLENGTH against the data.  *)
decode_resource_record_unchecked(data, message_data, message_offset) ==
    LET nm == decode_name(message_data, message_offset)
        offset == nm.len
    IN  IF ~nm.ok THEN RecordErr(nm.err)
        ELSE IF offset + 10 > Len(data) THEN RecordErr(InsufficientData)
        ELSE IF ~InBuf(data, offset, offset + 10) THEN RecordErr(Panic)
        ELSE
        LET rdlength == BE16(At(data, offset + 8), At(data, offset + 9))
            off10 == offset + 10
        IN  IF ~InBuf(data, off10, off10 + rdlength) THEN RecordErr(Panic)
            ELSE [ok |-> TRUE, err |-> "None",
                  record |->
                      [rr_name      |-> nm.elements,
                       rr_type      |-> from_rr_bytes(At(data, offset), At(data, offset + 1)),
                       rr_class     |-> from_rr_bytes(At(data, offset + 2), At(data, offset + 3)),
                       rr_ttl       |-> BE32(At(data, offset + 4), At(data, offset + 5),
                                             At(data, offset + 6), At(data, offset + 7)),
                       rr_rd_length |-> rdlength,
                       rr_data      |-> Slice(data, off10, off10 + rdlength)],
                  len |-> off10 + rdlength]

decode_resource_record(data, message_data, message_offset) ==
    LET nm == decode_name(message_data, message_offset)
        offset == nm.len
    IN  IF ~nm.ok THEN RecordErr(nm.err)
        ELSE IF offset + 10 > Len(data) THEN RecordErr(InsufficientData)
        ELSE IF ~InBuf(data, offset, offset + 10) THEN RecordErr(Panic)
        ELSE
        LET rdlength == BE16(At(data, offset + 8), At(data, offset + 9))
            off10 == offset + 10
        IN  IF off10 + rdlength > Len(data) THEN RecordErr(InsufficientData)
            ELSE IF ~InBuf(data, off10, off10 + rdlength) THEN RecordErr(Panic)
            ELSE [ok |-> TRUE, err |-> "None",
                  record |->
                      [rr_name      |-> nm.elements,
                       rr_type      |-> from_rr_bytes(At(data, offset), At(data, offset + 1)),
                       rr_class     |-> from_rr_bytes(At(data, offset + 2), At(data, offset + 3)),
                       rr_ttl       |-> BE32(At(data, offset + 4), At(data, offset + 5),
                                             At(data, offset + 6), At(data, offset + 7)),
                       rr_rd_length |-> rdlength,
                       rr_data      |-> Slice(data, off10, off10 + rdlength)],
                  len |-> off10 + rdlength]

RecordsErr(e) == [ok |-> FALSE, err |-> e, records |-> <<>>, len |-> 0]

RECURSIVE decode_resource_records_loop(_, _, _, _, _, _)
decode_resource_records_loop(data, message_data, message_offset, n, offset, records) ==
    IF n = 0 THEN [ok |-> TRUE, err |-> "None", records |-> records, len |-> offset]
    ELSE IF ~InBuf(data, offset, Len(data)) THEN RecordsErr(Panic)
    ELSE
    LET r == decode_resource_record(Slice(data, offset, Len(data)), message_data,
                                    message_offset + offset)
    IN  IF ~r.ok THEN RecordsErr(r.err)
        ELSE decode_resource_records_loop(data, message_data, message_offset, n - 1,
                                          offset + r.len, Append(records, r.record))

decode_resource_records(data, message_data, message_offset, n) ==
    IF n = 0 THEN [ok |-> TRUE, err |-> "None", records |-> <<>>, len |-> 0]
    ELSE decode_resource_records_loop(data, message_data, message_offset, n, 0, <<>>)

-----------------------------------------------------------------------------
(* Message codec: header, then the four sections in their fixed order.     *)

NoMessage ==
    [header |-> NoHeader, question |-> <<>>, answer |-> <<>>, authority |-> <<>>,
     additional |-> <<>>]

MessageErr(e) == [ok |-> FALSE, err |-> e, message |-> NoMessage, len |-> 0]

(* The sections follow one another: each step takes the result of the one  *)
(* before it and the offset reached so far.                                *)
MessageOk(header, q, an, ns, ar, offset) ==
    [ok |-> TRUE, err |-> "None",
     message |-> [header |-> header, question |-> q, answer |-> an, authority |-> ns,
                  additional |-> ar],
     len |-> offset]

decode_message_additional(header, q, an, ns, offset, ar) ==
    IF ~ar.ok THEN MessageErr(ar.err)
    ELSE MessageOk(header, q, an, ns, ar.records, offset + ar.len)

decode_message_authority(data, header, q, an, offset, ns) ==
    IF ~ns.ok THEN MessageErr(ns.err)
    ELSE IF ~InBuf(data, offset + ns.len, Len(data)) THEN MessageErr(Panic)
    ELSE decode_message_additional(header, q, an, ns.records, offset + ns.len,
             decode_resource_records(Slice(data, offset + ns.len, Len(data)), data,
                                     offset + ns.len, header.ar_count))

(* decode_message_answer with the authority section read from where the   *)
(* answer section started.                                                 *)
decode_message_answer_overlapping(data, header, q, offset, an) ==
    IF ~an.ok THEN MessageErr(an.err)
    ELSE IF ~InBuf(data, offset, Len(data)) THEN MessageErr(Panic)
    ELSE decode_message_authority(data, header, q, an.records, offset,
             decode_resource_records(Slice(data, offset, Len(data)), data,
                                     offset, header.ns_count))

decode_message_answer(data, header, q, offset, an) ==
    IF ~an.ok THEN MessageErr(an.err)
    ELSE IF ~InBuf(data, offset + an.len, Len(data)) THEN MessageErr(Panic)
    ELSE decode_message_authority(data, header, q, an.records, offset + an.len,
             decode_resource_records(Slice(data, offset + an.len, Len(data)), data,
                                     offset + an.len, header.ns_count))

decode_message_question(data, header, offset, q) ==
    IF ~q.ok THEN MessageErr(q.err)
    ELSE IF ~InBuf(data, offset + q.len, Len(data)) THEN MessageErr(Panic)
    ELSE decode_message_answer(data, header, q.questions, offset + q.len,
             decode_resource_records(Slice(data, offset + q.len, Len(data)), data,
                                     offset + q.len, header.an_count))

decode_message_header(data, h) ==
    IF ~h.ok THEN MessageErr(h.err)
    ELSE IF ~InBuf(data, h.len, Len(data)) THEN MessageErr(Panic)
    ELSE decode_message_question(data, h.header, h.len,
             decode_question(Slice(data, h.len, Len(data)), data, h.len,
                             h.header.qd_count))

decode_message(data) == decode_message_header(data, decode_header(data))

-----------------------------------------------------------------------------
(* Ref layer: offsets and lengths are MsgOffset = u16.  A cast `as         *)
(* MsgOffset` keeps the low 16 bits; the running offset saturates.         *)

MAX_QUESTIONS == 5

MAX_RECORDS == 10

MAX_NAME_ELEMENTS == 10

LenErr(e) == [ok |-> FALSE, err |-> e, len |-> 0]

LenOk(n) == [ok |-> TRUE, err |-> "None", len |-> n]

RECURSIVE name_wire_length_loop(_, _, _)
name_wire_length_loop(b, offset, pos) ==
    IF pos >= Len(b) THEN LenErr(InsufficientData)
    ELSE
    LET len_byte == At(b, pos)
        pos1 == pos + 1
    IN  IF len_byte = 0 THEN LenOk(pos1 - offset)
        ELSE IF len_byte >= 192 THEN
            IF pos1 >= Len(b) THEN LenErr(InsufficientData)
            ELSE LenOk(pos1 + 1 - offset)
        ELSE IF len_byte >= 64 THEN name_wire_length_loop(b, offset, pos1)
        ELSE IF len_byte > 63 THEN LenErr(InvalidDomainName)
        ELSE IF pos1 + len_byte > Len(b) THEN LenErr(InsufficientData)
        ELSE name_wire_length_loop(b, offset, pos1 + len_byte)

name_wire_length_at(b, offset) == name_wire_length_loop(b, offset, offset)

question_wire_length_at(b, offset) ==
    LET nl == name_wire_length_at(b, offset)
    IN  IF ~nl.ok THEN nl
        ELSE IF offset + nl.len + 4 > Len(b) THEN LenErr(InsufficientData)
        ELSE LenOk(nl.len + 4)

(* resource_record_wire_length_at without the check of RDLENGTH against   *)
(* the bytes that remain.                                                  *)
resource_record_wire_length_at_unchecked(b, offset) ==
    LET nl == name_wire_length_at(b, offset)
        rr_start == offset + nl.len
    IN  IF ~nl.ok THEN nl
        ELSE IF rr_start + 10 > Len(b) THEN LenErr(InsufficientData)
        ELSE LenOk(nl.len + 10 + BE16(At(b, rr_start + 8), At(b, rr_start + 9)))

resource_record_wire_length_at(b, offset) ==
    LET nl == name_wire_length_at(b, offset)
        rr_start == offset + nl.len
    IN  IF ~nl.ok THEN nl
        ELSE IF rr_start + 10 > Len(b) THEN LenErr(InsufficientData)
        ELSE IF ~InBuf(b, rr_start + 8, rr_start + 10) THEN LenErr(Panic)
        ELSE
        LET rdlength == BE16(At(b, rr_start + 8), At(b, rr_start + 9))
            total == nl.len + 10 + rdlength
        IN  IF rr_start + 10 + rdlength > Len(b) THEN LenErr(InsufficientData)
            ELSE LenOk(total)

ElemRef(kind, offset) == [kind |-> kind, offset |-> offset]

EmptyElements == [i \in 1..MAX_NAME_ELEMENTS |-> ElemRef("Root", 0)]

NameRef_empty == [elements |-> EmptyElements, count |-> 0, end_offset |-> 0]

NameRefErr(e) == [ok |-> FALSE, err |-> e, name |-> NameRef_empty]

NameRefOk(elements, count, pos) ==
    [ok |-> TRUE, err |-> "None",
     name |-> [elements |-> elements, count |-> count, end_offset |-> U16(pos)]]

(* elements[count] = e; count += 1: a write outside the array is a panic.  *)
Push(elements, count, e) ==
    IF count + 1 \in DOMAIN elements THEN [elements EXCEPT ![count + 1] = e] ELSE elements

(* parse_name_elements_into dropping the elements beyond the tenth.        *)
RECURSIVE parse_name_elements_loop_truncating(_, _, _, _)
parse_name_elements_loop_truncating(b, pos, elements, count) ==
    IF pos >= Len(b) THEN NameRefErr(InsufficientData)
    ELSE
    LET len_byte == At(b, pos)
        elem_offset == U16(pos)
        next == Min(count + 1, 10)
    IN  IF len_byte = 0 THEN
            NameRefOk(Push(elements, count, ElemRef("Root", elem_offset)), next, pos + 1)
        ELSE IF len_byte >= 192 THEN
            IF pos + 1 >= Len(b) THEN NameRefErr(InsufficientData)
            ELSE NameRefOk(Push(elements, count, ElemRef("Pointer", elem_offset)),
                           next, pos + 2)
        ELSE IF len_byte >= 64 THEN
            parse_name_elements_loop_truncating(b, pos + 1,
                Push(elements, count, ElemRef("Reserved", elem_offset)), next)
        ELSE IF pos + 1 + len_byte > Len(b) THEN NameRefErr(InsufficientData)
        ELSE parse_name_elements_loop_truncating(b, pos + 1 + len_byte,
                 Push(elements, count, ElemRef("Label", elem_offset)), next)

RECURSIVE parse_name_elements_loop(_, _, _, _)
parse_name_elements_loop(b, pos, elements, count) ==
    IF pos >= Len(b) THEN NameRefErr(InsufficientData)
    ELSE
    LET len_byte == At(b, pos)
        elem_offset == U16(pos)
    IN  IF len_byte = 0 THEN
            IF count >= 10 THEN NameRefErr(InvalidDomainName)
            ELSE IF count + 1 \notin DOMAIN elements THEN NameRefErr(Panic)
            ELSE NameRefOk(Push(elements, count, ElemRef("Root", elem_offset)),
                           count + 1, pos + 1)
        ELSE IF len_byte >= 192 THEN
            IF pos + 1 >= Len(b) THEN NameRefErr(InsufficientData)
            ELSE IF count >= 10 THEN NameRefErr(InvalidDomainName)
            ELSE IF count + 1 \notin DOMAIN elements THEN NameRefErr(Panic)
            ELSE NameRefOk(Push(elements, count, ElemRef("Pointer", elem_offset)),
                           count + 1, pos + 2)
        ELSE IF len_byte >= 64 THEN
            IF count >= 10 THEN NameRefErr(InvalidDomainName)
            ELSE IF count + 1 \notin DOMAIN elements THEN NameRefErr(Panic)
            ELSE parse_name_elements_loop(b, pos + 1,
                     Push(elements, count, ElemRef("Reserved", elem_offset)), count + 1)
        ELSE IF len_byte > 63 THEN NameRefErr(InvalidDomainName)
        ELSE IF pos + 1 + len_byte > Len(b) THEN NameRefErr(InsufficientData)
        ELSE IF count >= 10 THEN NameRefErr(InvalidDomainName)
        ELSE IF count + 1 \notin DOMAIN elements THEN NameRefErr(Panic)
        ELSE parse_name_elements_loop(b, pos + 1 + len_byte,
                 Push(elements, count, ElemRef("Label", elem_offset)), count + 1)

parse_name_elements_into(b, offset) == parse_name_elements_loop(b, offset, EmptyElements, 0)

NameRef_from_buf(b, offset) == parse_name_elements_into(b, offset)

NameRef_offset(name) == IF name.count = 0 THEN 0 ELSE name.elements[1].offset

QuestionRef_new(offset, len) == [offset |-> offset, len |-> len]

ResourceRecordRef_new(name, len) == [name |-> name, len |-> len]

ResourceRecordRef_empty == [name |-> NameRef_empty, len |-> 0]

ResourceRecordRef_offset(r) == NameRef_offset(r.name)

EmptyRecords == [i \in 1..MAX_RECORDS |-> ResourceRecordRef_empty]

EmptyQuestions == [i \in 1..MAX_QUESTIONS |-> QuestionRef_new(0, 0)]

NoRecordSection == [records |-> EmptyRecords, end_offset |-> 0, count |-> 0]

SectionErr(e) == [ok |-> FALSE, err |-> e, section |-> NoRecordSection, offset |-> 0]

RECURSIVE fill_resource_record_loop(_, _, _, _, _)
fill_resource_record_loop(data, offset, count, i, records) ==
    IF i >= count THEN
        [ok |-> TRUE, err |-> "None",
         section |-> [records |-> records, end_offset |-> offset, count |-> U8(count)],
         offset |-> offset]
    ELSE
    LET wl == resource_record_wire_length_at(data, offset)
        len == U16(wl.len)
        name == NameRef_from_buf(data, offset)
    IN  IF ~wl.ok THEN SectionErr(wl.err)
        ELSE IF ~name.ok THEN SectionErr(name.err)
        ELSE IF i + 1 \notin DOMAIN records THEN SectionErr(Panic)
        ELSE fill_resource_record_loop(data, saturating_add(offset, len), count, i + 1,
                 [records EXCEPT ![i + 1] = ResourceRecordRef_new(name.name, len)])

fill_resource_record_section(data, offset, count, max) ==
    IF count > max THEN SectionErr(InvalidDomainName)
    ELSE fill_resource_record_loop(data, offset, count, 0, EmptyRecords)

NoQuestionSection == [questions |-> EmptyQuestions, end_offset |-> 0, count |-> 0]

RECURSIVE fill_question_loop(_, _, _, _, _)
fill_question_loop(data, offset, qd_count, i, questions) ==
    IF i >= qd_count THEN
        [ok |-> TRUE, err |-> "None",
         section |-> [questions |-> questions, end_offset |-> offset,
                      count |-> U8(qd_count)],
         offset |-> offset]
    ELSE
    LET wl == question_wire_length_at(data, offset)
        len == U16(wl.len)
    IN  IF ~wl.ok THEN [ok |-> FALSE, err |-> wl.err, section |-> NoQuestionSection,
                        offset |-> 0]
        ELSE IF i + 1 \notin DOMAIN questions THEN
            [ok |-> FALSE, err |-> Panic, section |-> NoQuestionSection, offset |-> 0]
        ELSE fill_question_loop(data, saturating_add(offset, len), qd_count, i + 1,
                 [questions EXCEPT ![i + 1] = QuestionRef_new(offset, len)])

HeaderRef_decode_header(data) == decode_header(data)

NoMessageRef ==
    [question |-> NoQuestionSection, answer |-> NoRecordSection,
     authority |-> NoRecordSection, additional |-> NoRecordSection]

MessageRefErr(e) == [ok |-> FALSE, err |-> e, mref |-> NoMessageRef]

MessageRefOk(q, an, ns, ar) ==
    [ok |-> TRUE, err |-> "None",
     mref |-> [question |-> q, answer |-> an, authority |-> ns, additional |-> ar]]

decode_message_ref_additional(q, an, ns, ar) ==
    IF ~ar.ok THEN MessageRefErr(ar.err)
    ELSE MessageRefOk(q, an, ns, ar.section)

decode_message_ref_authority(data, header, q, an, ns) ==
    IF ~ns.ok THEN MessageRefErr(ns.err)
    ELSE decode_message_ref_additional(q, an, ns.section,
             fill_resource_record_section(data, ns.offset, header.ar_count, 10))

decode_message_ref_answer(data, header, q, an) ==
    IF ~an.ok THEN MessageRefErr(an.err)
    ELSE decode_message_ref_authority(data, header, q, an.section,
             fill_resource_record_section(data, an.offset, header.ns_count, 10))

decode_message_ref_question(data, header, q) ==
    IF ~q.ok THEN MessageRefErr(q.err)
    ELSE decode_message_ref_answer(data, header, q.section,
             fill_resource_record_section(data, q.offset, header.an_count, 10))

decode_message_ref_header(data, h) ==
    IF ~h.ok THEN MessageRefErr(h.err)
    ELSE IF h.header.qd_count > 5 THEN MessageRefErr(InvalidDomainName)
    ELSE decode_message_ref_question(data, h.header,
             fill_question_loop(data, 12, h.header.qd_count, 0, EmptyQuestions))

decode_message_ref(data) == decode_message_ref_header(data, HeaderRef_decode_header(data))

-----------------------------------------------------------------------------
(* The three name loops, one iteration at a time.  A loop record holds the *)
(* locals of the loop (pos, elements, count), the iterations made so far,  *)
(* and the value returned once the loop has been left.                     *)

LoopGoesOn(l, pos, elements, count) ==
    [l EXCEPT !.iter = @ + 1, !.pos = pos, !.elements = elements, !.count = count]

LoopReturns(l, res) == [l EXCEPT !.iter = @ + 1, !.done = TRUE, !.res = res]

(* The loop of decode_name in which a reserved length byte is not stepped  *)
(* over.                                                                   *)
decode_name_iteration_stuck(data, message_offset, l) ==
    LET offset == l.pos
    IN  IF message_offset + offset >= Len(data) THEN LoopReturns(l, NameErr(InsufficientData))
        ELSE
        LET length == At(data, message_offset + offset)
            off1 == offset + 1
        IN  IF length = 0 THEN LoopReturns(l, NameOk(Append(l.elements, Root), off1))
            ELSE IF length >= 192 THEN
                IF message_offset + off1 >= Len(data)
                THEN LoopReturns(l, NameErr(InsufficientData))
                ELSE LoopReturns(l,
                         NameOk(Append(l.elements,
                                       Pointer(BitOr(U16(BitAnd(length, 63) * 256),
                                                     At(data, message_offset + off1)))),
                                off1 + 1))
            ELSE IF length >= 64 THEN LoopGoesOn(l, offset, l.elements, 0)
            ELSE IF message_offset + off1 + length > Len(data)
                THEN LoopReturns(l, NameErr(InsufficientData))
            ELSE LoopGoesOn(l, off1 + length,
                     Append(l.elements,
                            Label(length, Slice(data, message_offset + off1,
                                                message_offset + off1 + length))), 0)

(* One pass through the loop of decode_name; pos is its local offset.      *)
decode_name_iteration(data, message_offset, l) ==
    LET offset == l.pos
    IN  IF message_offset + offset >= Len(data) THEN LoopReturns(l, NameErr(InsufficientData))
        ELSE
        LET length == At(data, message_offset + offset)
            off1 == offset + 1
        IN  IF length = 0 THEN LoopReturns(l, NameOk(Append(l.elements, Root), off1))
            ELSE IF length >= 192 THEN
                IF message_offset + off1 >= Len(data)
                THEN LoopReturns(l, NameErr(InsufficientData))
                ELSE LoopReturns(l,
                         NameOk(Append(l.elements,
                                       Pointer(BitOr(U16(BitAnd(length, 63) * 256),
                                                     At(data, message_offset + off1)))),
                                off1 + 1))
            ELSE IF length >= 64 THEN LoopGoesOn(l, off1, Append(l.elements, Reserved), 0)
            ELSE IF length > 63 THEN LoopReturns(l, NameErr(InvalidDomainName))
            ELSE IF message_offset + off1 + length > Len(data)
                THEN LoopReturns(l, NameErr(InsufficientData))
            ELSE LoopGoesOn(l, off1 + length,
                     Append(l.elements,
                            Label(length, Slice(data, message_offset + off1,
                                                message_offset + off1 + length))), 0)

(* One pass through the loop of name_wire_length_at; pos is absolute.      *)
name_wire_length_iteration(b, offset, l) ==
    IF l.pos >= Len(b) THEN LoopReturns(l, LenErr(InsufficientData))
    ELSE
    LET len_byte == At(b, l.pos)
        pos1 == l.pos + 1
    IN  IF len_byte = 0 THEN LoopReturns(l, LenOk(pos1 - offset))
        ELSE IF len_byte >= 192 THEN
            IF pos1 >= Len(b) THEN LoopReturns(l, LenErr(InsufficientData))
            ELSE LoopReturns(l, LenOk(pos1 + 1 - offset))
        ELSE IF len_byte >= 64 THEN LoopGoesOn(l, pos1, l.elements, 0)
        ELSE IF len_byte > 63 THEN LoopReturns(l, LenErr(InvalidDomainName))
        ELSE IF pos1 + len_byte > Len(b) THEN LoopReturns(l, LenErr(InsufficientData))
        ELSE LoopGoesOn(l, pos1 + len_byte, l.elements, 0)

(* One pass through the loop of parse_name_elements_into.                  *)
parse_name_elements_iteration(b, l) ==
    LET pos == l.pos
        count == l.count
    IN  IF pos >= Len(b) THEN LoopReturns(l, NameRefErr(InsufficientData))
        ELSE
        LET len_byte == At(b, pos)
            elem_offset == U16(pos)
        IN  IF len_byte = 0 THEN
                IF count >= 10 THEN LoopReturns(l, NameRefErr(InvalidDomainName))
                ELSE IF count + 1 \notin DOMAIN l.elements
                    THEN LoopReturns(l, NameRefErr(Panic))
                ELSE LoopReturns(l,
                         NameRefOk(Push(l.elements, count, ElemRef("Root", elem_offset)),
                                   count + 1, pos + 1))
            ELSE IF len_byte >= 192 THEN
                IF pos + 1 >= Len(b) THEN LoopReturns(l, NameRefErr(InsufficientData))
                ELSE IF count >= 10 THEN LoopReturns(l, NameRefErr(InvalidDomainName))
                ELSE IF count + 1 \notin DOMAIN l.elements
                    THEN LoopReturns(l, NameRefErr(Panic))
                ELSE LoopReturns(l,
                         NameRefOk(Push(l.elements, count, ElemRef("Pointer", elem_offset)),
                                   count + 1, pos + 2))
            ELSE IF len_byte >= 64 THEN
                IF count >= 10 THEN LoopReturns(l, NameRefErr(InvalidDomainName))
                ELSE IF count + 1 \notin DOMAIN l.elements
                    THEN LoopReturns(l, NameRefErr(Panic))
                ELSE LoopGoesOn(l, pos + 1,
                         Push(l.elements, count, ElemRef("Reserved", elem_offset)), count + 1)
            ELSE IF len_byte > 63 THEN LoopReturns(l, NameRefErr(InvalidDomainName))
            ELSE IF pos + 1 + len_byte > Len(b)
                THEN LoopReturns(l, NameRefErr(InsufficientData))
            ELSE IF count >= 10 THEN LoopReturns(l, NameRefErr(InvalidDomainName))
            ELSE IF count + 1 \notin DOMAIN l.elements THEN LoopReturns(l, NameRefErr(Panic))
            ELSE LoopGoesOn(l, pos + 1 + len_byte,
                     Push(l.elements, count, ElemRef("Label", elem_offset)), count + 1)

-----------------------------------------------------------------------------
(* Materialising refs against a buffer.                                    *)

NoQuestion == [q_name |-> <<>>, q_type |-> 0, q_class |-> 0]

QuestionErr(e) == [ok |-> FALSE, err |-> e, question |-> NoQuestion]

QuestionRef_decode_question(q, data) ==
    IF ~InBuf(data, q.offset, Len(data)) THEN QuestionErr(Panic)
    ELSE
    LET r == decode_question(Slice(data, q.offset, Len(data)), data, q.offset, 1)
    IN  IF ~r.ok THEN QuestionErr(r.err)
        ELSE IF Len(r.questions) = 0 THEN QuestionErr(Panic)
        ELSE [ok |-> TRUE, err |-> "None", question |-> r.questions[1]]

ResourceRecordRef_decode_resource_record(r, data) ==
    LET off == ResourceRecordRef_offset(r)
    IN  IF ~InBuf(data, off, Len(data)) THEN RecordErr(Panic)
        ELSE decode_resource_record(Slice(data, off, Len(data)), data, off)

(* &self.questions[..self.count]: the slice of valid refs.                 *)
as_slice(arr, count) == SubSeq(arr, 1, count)

RECURSIVE decode_question_refs(_, _, _)
decode_question_refs(refs, data, acc) ==
    IF refs = <<>> THEN [ok |-> TRUE, err |-> "None", questions |-> acc, len |-> 0]
    ELSE
    LET r == QuestionRef_decode_question(Head(refs), data)
    IN  IF ~r.ok THEN QuestionsErr(r.err)
        ELSE decode_question_refs(Tail(refs), data, Append(acc, r.question))

RECURSIVE decode_record_refs(_, _, _)
decode_record_refs(refs, data, acc) ==
    IF refs = <<>> THEN [ok |-> TRUE, err |-> "None", records |-> acc, len |-> 0]
    ELSE
    LET r == ResourceRecordRef_decode_resource_record(Head(refs), data)
    IN  IF ~r.ok THEN RecordsErr(r.err)
        ELSE decode_record_refs(Tail(refs), data, Append(acc, r.record))

MessageRef_decode_additional(header, q, an, ns, ar) ==
    IF ~ar.ok THEN MessageErr(ar.err)
    ELSE MessageOk(header, q, an, ns, ar.records, 0)

MessageRef_decode_authority(m, data, header, q, an, ns) ==
    IF ~ns.ok THEN MessageErr(ns.err)
    ELSE IF m.additional.count > Len(m.additional.records) THEN MessageErr(Panic)
    ELSE MessageRef_decode_additional(header, q, an, ns.records,
             decode_record_refs(as_slice(m.additional.records, m.additional.count),
                                data, <<>>))

MessageRef_decode_answer(m, data, header, q, an) ==
    IF ~an.ok THEN MessageErr(an.err)
    ELSE IF m.authority.count > Len(m.authority.records) THEN MessageErr(Panic)
    ELSE MessageRef_decode_authority(m, data, header, q, an.records,
             decode_record_refs(as_slice(m.authority.records, m.authority.count),
                                data, <<>>))

MessageRef_decode_question(m, data, header, q) ==
    IF ~q.ok THEN MessageErr(q.err)
    ELSE IF m.answer.count > Len(m.answer.records) THEN MessageErr(Panic)
    ELSE MessageRef_decode_answer(m, data, header, q.questions,
             decode_record_refs(as_slice(m.answer.records, m.answer.count), data, <<>>))

MessageRef_decode_header(m, data, h) ==
    IF ~h.ok THEN MessageErr(h.err)
    ELSE IF m.question.count > Len(m.question.questions) THEN MessageErr(Panic)
    ELSE MessageRef_decode_question(m, data, h.header,
             decode_question_refs(as_slice(m.question.questions, m.question.count),
                                  data, <<>>))

MessageRef_decode_message(m, data) ==
    MessageRef_decode_header(m, data, HeaderRef_decode_header(data))

-----------------------------------------------------------------------------
(* Encoders.  b is the destination slice; the result carries the slice as  *)
(* the call left it (partly written when the call fails).                  *)

(* b[offset .. offset + Len(bytes)] = bytes, for a range inside b.         *)
WriteAt(b, offset, bytes) ==
    [i \in 1..Len(b) |->
        IF i > offset /\ i <= offset + Len(bytes) THEN bytes[i - offset] ELSE b[i]]

EncErr(e, b) == [ok |-> FALSE, err |-> e, buf |-> b, len |-> 0]

EncOk(b, n) == [ok |-> TRUE, err |-> "None", buf |-> b, len |-> n]

(* encode_header writing the answer and authority counts in each other's   *)
(* place.                                                                  *)
encode_header_counts_swapped(header, b) ==
    IF Len(b) < 12 THEN EncErr(InvalidHeaderLength, b)
    ELSE
    LET flags == flags_to_u16(header.flags)
    IN  EncOk(WriteAt(b, 0,
                  <<U8(Shr(header.id, 8)), U8(header.id),
                    U8(Shr(flags, 8)), U8(flags),
                    U8(Shr(header.qd_count, 8)), U8(header.qd_count),
                    U8(Shr(header.ns_count, 8)), U8(header.ns_count),
                    U8(Shr(header.an_count, 8)), U8(header.an_count),
                    U8(Shr(header.ar_count, 8)), U8(header.ar_count)>>), 12)

encode_header(header, b) ==
    IF Len(b) < 12 THEN EncErr(InvalidHeaderLength, b)
    ELSE
    LET flags == flags_to_u16(header.flags)
    IN  EncOk(WriteAt(b, 0,
                  <<U8(Shr(header.id, 8)), U8(header.id),
                    U8(Shr(flags, 8)), U8(flags),
                    U8(Shr(header.qd_count, 8)), U8(header.qd_count),
                    U8(Shr(header.an_count, 8)), U8(header.an_count),
                    U8(Shr(header.ns_count, 8)), U8(header.ns_count),
                    U8(Shr(header.ar_count, 8)), U8(header.ar_count)>>), 12)

(* encode_name advancing past a label by its data only.                    *)
RECURSIVE encode_name_loop_short_advance(_, _, _)
encode_name_loop_short_advance(name, b, offset) ==
    IF name = <<>> THEN EncOk(b, offset)
    ELSE
    LET element == Head(name)
    IN  IF element.kind = "Label" THEN
            IF Len(b) < offset + 1 + Len(element.data) THEN EncErr(InsufficientData, b)
            ELSE encode_name_loop_short_advance(Tail(name),
                     WriteAt(b, offset, <<element.length>> \o element.data),
                     offset + Len(element.data))
        ELSE IF element.kind = "Pointer" THEN
            IF Len(b) < offset + 2 THEN EncErr(InsufficientData, b)
            ELSE encode_name_loop_short_advance(Tail(name),
                     WriteAt(b, offset, <<BitOr(192, U8(Shr(element.ptr, 8))),
                                          U8(BitAnd(element.ptr, 255))>>),
                     offset + 2)
        ELSE IF element.kind = "Root" THEN
            IF Len(b) < offset + 1 THEN EncErr(InsufficientData, b)
            ELSE encode_name_loop_short_advance(Tail(name), WriteAt(b, offset, <<0>>),
                                                offset + 1)
        ELSE EncErr(InvalidDomainName, b)

(* encode_name passing over a reserved element without writing anything.  *)
RECURSIVE encode_name_loop_skipping_reserved(_, _, _)
encode_name_loop_skipping_reserved(name, b, offset) ==
    IF name = <<>> THEN EncOk(b, offset)
    ELSE
    LET element == Head(name)
    IN  IF element.kind = "Label" THEN
            IF Len(b) < offset + 1 + Len(element.data) THEN EncErr(InsufficientData, b)
            ELSE encode_name_loop_skipping_reserved(Tail(name),
                     WriteAt(b, offset, <<element.length>> \o element.data),
                     offset + 1 + Len(element.data))
        ELSE IF element.kind = "Pointer" THEN
            IF Len(b) < offset + 2 THEN EncErr(InsufficientData, b)
            ELSE encode_name_loop_skipping_reserved(Tail(name),
                     WriteAt(b, offset, <<BitOr(192, U8(Shr(element.ptr, 8))),
                                          U8(BitAnd(element.ptr, 255))>>),
                     offset + 2)
        ELSE IF element.kind = "Root" THEN
            IF Len(b) < offset + 1 THEN EncErr(InsufficientData, b)
            ELSE encode_name_loop_skipping_reserved(Tail(name), WriteAt(b, offset, <<0>>),
                                                    offset + 1)
        ELSE encode_name_loop_skipping_reserved(Tail(name), b, offset)

RECURSIVE encode_name_loop(_, _, _)
encode_name_loop(name, b, offset) ==
    IF name = <<>> THEN EncOk(b, offset)
    ELSE
    LET element == Head(name)
    IN  IF element.kind = "Label" THEN
            IF Len(b) < offset + 1 + Len(element.data) THEN EncErr(InsufficientData, b)
            ELSE encode_name_loop(Tail(name),
                     WriteAt(b, offset, <<element.length>> \o element.data),
                     offset + 1 + Len(element.data))
        ELSE IF element.kind = "Pointer" THEN
            IF Len(b) < offset + 2 THEN EncErr(InsufficientData, b)
            ELSE encode_name_loop(Tail(name),
                     WriteAt(b, offset, <<BitOr(192, U8(Shr(element.ptr, 8))),
                                          U8(BitAnd(element.ptr, 255))>>),
                     offset + 2)
        ELSE IF element.kind = "Root" THEN
            IF Len(b) < offset + 1 THEN EncErr(InsufficientData, b)
            ELSE encode_name_loop(Tail(name), WriteAt(b, offset, <<0>>), offset + 1)
        ELSE EncErr(InvalidDomainName, b)

encode_name(name, b) == encode_name_loop(name, b, 0)

(* Run an encoder on the sub-slice &mut b[offset..] and put the slice back. *)
Splice(b, offset, r) ==
    [r EXCEPT !.buf = SubSeq(b, 1, offset) \o r.buf]

(* One question, once its name has been written to nm.buf.                 *)
encode_question_fixed(question, offset, nm) ==
    IF ~nm.ok THEN EncErr(nm.err, nm.buf)
    ELSE IF offset + nm.len + 4 > Len(nm.buf) THEN EncErr(InsufficientData, nm.buf)
    ELSE EncOk(WriteAt(nm.buf, offset + nm.len,
                   to_question_bytes(question.q_type) \o to_question_bytes(question.q_class)),
               offset + nm.len + 4)

RECURSIVE encode_question_loop(_, _, _)
RECURSIVE encode_question_next(_, _)
encode_question_loop(questions, b, offset) ==
    IF questions = <<>> THEN EncOk(b, offset)
    ELSE IF ~InBuf(b, offset, Len(b)) THEN EncErr(Panic, b)
    ELSE encode_question_next(questions,
             encode_question_fixed(Head(questions), offset,
                 Splice(b, offset,
                        encode_name(Head(questions).q_name, Slice(b, offset, Len(b))))))

encode_question_next(questions, r) ==
    IF ~r.ok THEN r ELSE encode_question_loop(Tail(questions), r.buf, r.len)

encode_question(questions, b) ==
    IF questions = <<>> THEN EncOk(b, 0)
    ELSE encode_question_loop(questions, b, 0)

(* The RDATA copied without the check of its length against the room left. *)
encode_record_data_unchecked(record, b, offset) ==
    EncOk(WriteAt(b, offset, record.rr_data), offset + Len(record.rr_data))

(* The RDATA, once the ten fixed bytes have been written to b.             *)
encode_record_data(record, b, offset) ==
    IF offset + Len(record.rr_data) > Len(b) THEN EncErr(InsufficientData, b)
    ELSE EncOk(WriteAt(b, offset, record.rr_data), offset + Len(record.rr_data))

(* The ten fixed bytes with RDLENGTH taken from the length of the RDATA.    *)
encode_record_fixed_counting(record, nm) ==
    IF ~nm.ok THEN nm
    ELSE IF nm.len + 10 > Len(nm.buf) THEN EncErr(InsufficientData, nm.buf)
    ELSE encode_record_data(record,
             WriteAt(nm.buf, nm.len,
                 ((to_rr_bytes(record.rr_type) \o to_rr_bytes(record.rr_class))
                  \o U32Bytes(record.rr_ttl))
                 \o <<U8(Shr(Len(record.rr_data), 8)), U8(Len(record.rr_data))>>),
             nm.len + 10)

(* The ten fixed bytes, once the name has been written to nm.buf.          *)
encode_record_fixed(record, nm) ==
    IF ~nm.ok THEN nm
    ELSE IF nm.len + 10 > Len(nm.buf) THEN EncErr(InsufficientData, nm.buf)
    ELSE encode_record_data(record,
             WriteAt(nm.buf, nm.len,
                 ((to_rr_bytes(record.rr_type) \o to_rr_bytes(record.rr_class))
                  \o U32Bytes(record.rr_ttl))
                 \o <<U8(Shr(record.rr_rd_length, 8)), U8(record.rr_rd_length)>>),
             nm.len + 10)

encode_resource_record(record, b) ==
    encode_record_fixed(record, encode_name(record.rr_name, b))

RECURSIVE encode_resource_records_loop(_, _, _)
RECURSIVE encode_resource_records_next(_, _, _)
encode_resource_records_loop(records, b, offset) ==
    IF records = <<>> THEN EncOk(b, offset)
    ELSE IF ~InBuf(b, offset, Len(b)) THEN EncErr(Panic, b)
    ELSE encode_resource_records_next(records, offset,
             Splice(b, offset,
                    encode_resource_record(Head(records), Slice(b, offset, Len(b)))))

encode_resource_records_next(records, offset, r) ==
    IF ~r.ok THEN EncErr(r.err, r.buf)
    ELSE encode_resource_records_loop(Tail(records), r.buf, offset + r.len)

encode_resource_records(records, b) ==
    IF records = <<>> THEN EncOk(b, 0)
    ELSE encode_resource_records_loop(records, b, 0)

(* Message::wire_length: header, then each entry's exact wire length.      *)
ElementWireLength(e) ==
    IF e.kind = "Label" THEN 1 + Len(e.data)
    ELSE IF e.kind = "Pointer" THEN 2
    ELSE 1

RECURSIVE NameWireLength(_)
NameWireLength(name) ==
    IF name = <<>> THEN 0 ELSE ElementWireLength(Head(name)) + NameWireLength(Tail(name))

RECURSIVE QuestionsWireLength(_)
QuestionsWireLength(qs) ==
    IF qs = <<>> THEN 0
    ELSE NameWireLength(Head(qs).q_name) + 4 + QuestionsWireLength(Tail(qs))

RECURSIVE RecordsWireLength(_)
RecordsWireLength(rs) ==
    IF rs = <<>> THEN 0
    ELSE NameWireLength(Head(rs).rr_name) + 10 + Len(Head(rs).rr_data)
         + RecordsWireLength(Tail(rs))

wire_length(message) ==
    12 + QuestionsWireLength(message.question) + RecordsWireLength(message.answer)
    + RecordsWireLength(message.authority) + RecordsWireLength(message.additional)

Zeros(n) == [i \in 1..n |-> 0]

(* Run a section encoder on &mut data[offset..], as encode_message does.   *)
EncodeAt(data, offset, r) == Splice(data, offset, r)

(* data.truncate(offset), after the last section.                          *)
encode_message_additional(offset, ar) ==
    IF ~ar.ok THEN EncErr(ar.err, ar.buf)
    ELSE EncOk(SubSeq(ar.buf, 1, offset + ar.len), offset + ar.len)

encode_message_authority(message, offset, ns) ==
    IF ~ns.ok THEN EncErr(ns.err, ns.buf)
    ELSE IF ~InBuf(ns.buf, offset + ns.len, Len(ns.buf)) THEN EncErr(Panic, ns.buf)
    ELSE encode_message_additional(offset + ns.len,
             EncodeAt(ns.buf, offset + ns.len,
                 encode_resource_records(message.additional,
                     Slice(ns.buf, offset + ns.len, Len(ns.buf)))))

encode_message_answer(message, offset, an) ==
    IF ~an.ok THEN EncErr(an.err, an.buf)
    ELSE IF ~InBuf(an.buf, offset + an.len, Len(an.buf)) THEN EncErr(Panic, an.buf)
    ELSE encode_message_authority(message, offset + an.len,
             EncodeAt(an.buf, offset + an.len,
                 encode_resource_records(message.authority,
                     Slice(an.buf, offset + an.len, Len(an.buf)))))

encode_message_question(message, offset, q) ==
    IF ~q.ok THEN EncErr(q.err, q.buf)
    ELSE IF ~InBuf(q.buf, offset + q.len, Len(q.buf)) THEN EncErr(Panic, q.buf)
    ELSE encode_message_answer(message, offset + q.len,
             EncodeAt(q.buf, offset + q.len,
                 encode_resource_records(message.answer,
                     Slice(q.buf, offset + q.len, Len(q.buf)))))

encode_message_header(message, h) ==
    IF ~h.ok THEN EncErr(h.err, h.buf)
    ELSE IF ~InBuf(h.buf, h.len, Len(h.buf)) THEN EncErr(Panic, h.buf)
    ELSE encode_message_question(message, h.len,
             EncodeAt(h.buf, h.len,
                 encode_question(message.question, Slice(h.buf, h.len, Len(h.buf)))))

encode_message(message) ==
    encode_message_header(message,
        encode_header(message.header, Zeros(wire_length(message))))

-----------------------------------------------------------------------------
(* MessageBuilder.  A text name is the sequence of its bytes.              *)

DOT == 46

(* MessageBuilder::new without the recursion-desired default.             *)
MessageBuilder_new_no_rd(id, is_response) ==
    [id         |-> id,
     flags      |-> [qr |-> is_response, op_code |-> 0, aa |-> FALSE, tc |-> FALSE,
                     rd |-> FALSE, ra |-> FALSE, z |-> 0, r_code |-> 0],
     questions  |-> <<>>,
     answers    |-> <<>>,
     authority  |-> <<>>,
     additional |-> <<>>]

MessageBuilder_new(id, is_response) ==
    [id         |-> id,
     flags      |-> [qr |-> is_response, op_code |-> 0, aa |-> FALSE, tc |-> FALSE,
                     rd |-> TRUE, ra |-> FALSE, z |-> 0, r_code |-> 0],
     questions  |-> <<>>,
     answers    |-> <<>>,
     authority  |-> <<>>,
     additional |-> <<>>]

MessageBuilder_query(id) == MessageBuilder_new(id, FALSE)

MessageBuilder_response(id) == MessageBuilder_new(id, TRUE)

MessageBuilder_id(b, id) == [b EXCEPT !.id = id]

MessageBuilder_flags(b, flags) == [b EXCEPT !.flags = flags]

MessageBuilder_question(b, name, q_type, q_class) ==
    [b EXCEPT !.questions =
        Append(@, [name |-> name, q_type |-> q_type, q_class |-> q_class])]

ResourceRecordBuilder(name, rr_type, rr_class, ttl, rdata) ==
    [name |-> name, rr_type |-> rr_type, rr_class |-> rr_class, ttl |-> ttl,
     rdata |-> rdata]

MessageBuilder_answer(b, name, rr_type, rr_class, ttl, rdata) ==
    [b EXCEPT !.answers = Append(@, ResourceRecordBuilder(name, rr_type, rr_class, ttl, rdata))]

MessageBuilder_authority(b, name, rr_type, rr_class, ttl, rdata) ==
    [b EXCEPT !.authority = Append(@, ResourceRecordBuilder(name, rr_type, rr_class, ttl, rdata))]

MessageBuilder_additional(b, name, rr_type, rr_class, ttl, rdata) ==
    [b EXCEPT !.additional = Append(@, ResourceRecordBuilder(name, rr_type, rr_class, ttl, rdata))]

(* name.split('.'): the segments between dots, empty ones included, in     *)
(* order; a segment starts after position 0 or after a dot and ends before *)
(* the next dot or the end of the name.                                    *)
Split(name) ==
    LET dots == {i \in 1..Len(name) : name[i] = DOT}
        starts == {0} \cup dots
        ends == dots \cup {Len(name) + 1}
        kth(k) == CHOOSE a \in starts : Cardinality({x \in starts : x < a}) = k - 1
        endOf(a) == CHOOSE e \in ends : e > a /\ \A x \in ends : x > a => e <= x
    IN  [k \in 1..Cardinality(starts) |->
            SubSeq(name, kth(k) + 1, endOf(kth(k)) - 1)]

BytesErr(e) == [ok |-> FALSE, err |-> e, bytes |-> <<>>]

BytesOk(bytes) == [ok |-> TRUE, err |-> "None", bytes |-> bytes]

(* encode_name_bytes writing a zero length byte for an empty segment.      *)
RECURSIVE encode_labels_keeping_empty(_, _)
encode_labels_keeping_empty(labels, b) ==
    IF labels = <<>> THEN BytesOk(Append(b, 0))
    ELSE
    LET label == Head(labels)
    IN  IF Len(label) > 63 THEN BytesErr(InvalidDomainName)
        ELSE encode_labels_keeping_empty(Tail(labels), (b \o <<U8(Len(label))>>) \o label)

RECURSIVE encode_labels(_, _)
encode_labels(labels, b) ==
    IF labels = <<>> THEN BytesOk(Append(b, 0))
    ELSE
    LET label == Head(labels)
    IN  IF label = <<>> THEN encode_labels(Tail(labels), b)
        ELSE IF Len(label) > 63 THEN BytesErr(InvalidDomainName)
        ELSE encode_labels(Tail(labels), (b \o <<U8(Len(label))>>) \o label)

encode_name_bytes(name) ==
    IF name = <<>> THEN BytesOk(<<0>>)
    ELSE encode_labels(Split(name), <<>>)

encoded_name_len(name) ==
    LET r == encode_name_bytes(name)
    IN  IF r.ok THEN LenOk(Len(r.bytes)) ELSE LenErr(r.err)

(* The size pass of build_encode_direct: it fails on the first bad name.   *)
RECURSIVE total_len(_, _, _)
RECURSIVE total_len_next(_, _, _, _)
total_len(entries, fixed, total) ==
    IF ~total.ok \/ entries = <<>> THEN total
    ELSE total_len_next(entries, fixed, total.len, encoded_name_len(Head(entries).name))

total_len_next(entries, fixed, total, n) ==
    IF ~n.ok THEN n
    ELSE total_len(Tail(entries), fixed,
             LenOk(total + n.len + fixed
                   + (IF fixed = 10 THEN Len(Head(entries).rdata) ELSE 0)))

RECURSIVE write_questions(_, _)
RECURSIVE write_question(_, _, _)
write_questions(questions, b) ==
    IF questions = <<>> THEN BytesOk(b)
    ELSE write_question(questions, b, encode_name_bytes(Head(questions).name))

write_question(questions, b, name_bytes) ==
    IF ~name_bytes.ok THEN BytesErr(name_bytes.err)
    ELSE write_questions(Tail(questions),
             (b \o name_bytes.bytes)
             \o (to_question_bytes(Head(questions).q_type)
                 \o to_question_bytes(Head(questions).q_class)))

RECURSIVE write_records(_, _)
RECURSIVE write_record(_, _, _)
write_records(records, b) ==
    IF records = <<>> THEN BytesOk(b)
    ELSE write_record(records, b, encode_name_bytes(Head(records).name))

write_record(records, b, name_bytes) ==
    IF ~name_bytes.ok THEN BytesErr(name_bytes.err)
    ELSE write_records(Tail(records),
             ((b \o name_bytes.bytes)
              \o (((to_rr_bytes(Head(records).rr_type) \o to_rr_bytes(Head(records).rr_class))
                   \o U32Bytes(Head(records).ttl))
                  \o <<U8(Shr(Len(Head(records).rdata), 8)), U8(Len(Head(records).rdata))>>))
             \o Head(records).rdata)

(* The write pass: header, questions, then the three record lists.         *)
build_write_records(b, r, next) ==
    IF ~r.ok THEN r ELSE write_records(next, r.bytes)

(* The write pass with the authority records written before the answers.   *)
build_write_authority_first(b, h) ==
    IF ~h.ok THEN BytesErr(h.err)
    ELSE build_write_records(b,
             build_write_records(b,
                 build_write_records(b, write_questions(b.questions, h.buf), b.authority),
                 b.answers),
             b.additional)

build_write(b, h) ==
    IF ~h.ok THEN BytesErr(h.err)
    ELSE build_write_records(b,
             build_write_records(b,
                 build_write_records(b, write_questions(b.questions, h.buf), b.answers),
                 b.authority),
             b.additional)

build_header(b) ==
    [id       |-> b.id,
     flags    |-> b.flags,
     qd_count |-> U16(Len(b.questions)),
     an_count |-> U16(Len(b.answers)),
     ns_count |-> U16(Len(b.authority)),
     ar_count |-> U16(Len(b.additional))]

build_sized(b, total) ==
    IF ~total.ok THEN BytesErr(total.err)
    ELSE build_write(b, encode_header(build_header(b), Zeros(12)))

build_encode_direct(b) ==
    build_sized(b,
        total_len(b.additional, 10,
            total_len(b.authority, 10,
                total_len(b.answers, 10, total_len(b.questions, 4, LenOk(12))))))

build_decode(e, buffer, d) ==
    [ok |-> d.ok, err |-> d.err, buffer |-> e.bytes, message |-> d.message]

build_encoded(e, buffer) ==
    IF ~e.ok THEN [ok |-> FALSE, err |-> e.err, buffer |-> buffer, message |-> NoMessage]
    ELSE build_decode(e, buffer, decode_message(e.bytes))

(* build: *buffer = build_encode_direct()?; decode_message(buffer).        *)
build(b, buffer) == build_encoded(build_encode_direct(b), buffer)

-----------------------------------------------------------------------------
(* Inputs.  Buffers are drawn from four families: short and raw buffers    *)
(* (every byte string over RawBytes up to MaxRaw bytes behind a header),   *)
(* structured messages (entries laid out from the sets below, then cut     *)
(* short, extended, or given counts that disagree with the entries),       *)
(* buffers at and beyond the Ref layer's capacities, and buffers longer    *)
(* than 65535 bytes.                                                       *)

MaxRaw == 4

MaxQ == 2

MaxR == 2

MaxNameBuf == 4

MaxEntries == 2

NotRun == "NotRun"

RECURSIVE SeqsUpTo(_, _)
SeqsUpTo(S, n) ==
    IF n = 0 THEN {<<>>}
    ELSE LET shorter == SeqsUpTo(S, n - 1)
         IN  shorter \cup {Append(t, x) : t \in {u \in shorter : Len(u) = n - 1}, x \in S}

RECURSIVE Concat(_)
Concat(ss) == IF ss = <<>> THEN <<>> ELSE Head(ss) \o Concat(Tail(ss))

Rep(bytes, n) == [i \in 1..(n * Len(bytes)) |-> bytes[((i - 1) % Len(bytes)) + 1]]

HeaderBytes(id, flags, qd, an, ns, ar) ==
    <<id \div 256, id % 256, flags \div 256, flags % 256, qd \div 256, qd % 256,
      an \div 256, an % 256, ns \div 256, ns % 256, ar \div 256, ar % 256>>

RawBytes == {0, 1, 64, 192}

RawCounts == {<<1, 0, 0, 0>>, <<0, 1, 0, 0>>, <<1, 0, 0, 1>>}

RawBuffers ==
    {HeaderBytes(1, 256, c[1], c[2], c[3], c[4]) \o body :
        c \in RawCounts, body \in SeqsUpTo(RawBytes, MaxRaw)}

ShortBuffers ==
    {SubSeq(h, 1, k) : k \in 0..11,
        h \in {HeaderBytes(1, 256, 1, 0, 0, 0), HeaderBytes(513, 33152, 0, 1, 1, 1)}}

QuestionBytes(name, t, c) == name \o <<t \div 256, t % 256, c \div 256, c % 256>>

RecordBytes(name, t, c, ttl, rdata) ==
    (name \o <<t \div 256, t % 256, c \div 256, c % 256,
               ttl[1], ttl[2], ttl[3], ttl[4],
               Len(rdata) \div 256, Len(rdata) % 256>>) \o rdata

QuestionEntries ==
    {QuestionBytes(<<1, 97, 0>>, 1, 1), QuestionBytes(<<192, 12>>, 28, 1),
     QuestionBytes(<<0>>, 255, 3)}

RecordEntries ==
    {RecordBytes(<<1, 97, 0>>, 1, 1, <<0, 0, 14, 16>>, <<93, 184>>),
     RecordBytes(<<1, 98, 192, 12>>, 5, 1, <<255, 2, 3, 4>>, <<>>),
     RecordBytes(<<0>>, 41, 4096, <<0, 128, 0, 0>>, <<0, 0, 12>>)}

(* The ways to deal n records to the answer, authority and additional      *)
(* sections, in order.                                                     *)
Splits(n) == {c \in (0..n) \X (0..n) \X (0..n) : c[1] + c[2] + c[3] = n}

(* Counts that agree with the records present, and counts that announce    *)
(* one record more than the buffer holds.                                  *)
CountsFor(n) == Splits(n) \cup (IF n < MaxR THEN Splits(n + 1) ELSE {})

StructuredBuffers ==
    UNION {{HeaderBytes(7, 33152, Len(qs), c[1], c[2], c[3]) \o Concat(qs) \o Concat(rs) :
               qs \in SeqsUpTo(QuestionEntries, MaxQ), c \in CountsFor(Len(rs))} :
           rs \in SeqsUpTo(RecordEntries, MaxR)}

Sample29 ==
    <<0, 1, 1, 0, 0, 1, 0, 0, 0, 0, 0, 0,
      7, 101, 120, 97, 109, 112, 108, 101, 3, 99, 111, 109, 0, 0, 1, 0, 1>>

SampleMessages ==
    {Sample29,
     HeaderBytes(2, 33152, 1, 1, 0, 1)
        \o QuestionBytes(<<1, 97, 0>>, 1, 1)
        \o RecordBytes(<<192, 12>>, 1, 1, <<0, 0, 0, 60>>, <<10, 0>>)
        \o RecordBytes(<<64, 0>>, 41, 1, <<0, 0, 0, 0>>, <<>>),
     HeaderBytes(3, 33152, 0, 1, 0, 0)
        \o RecordBytes(<<1, 97, 0>>, 1, 1, <<0, 0, 0, 60>>, <<1, 2, 3, 4>>)}

(* Every prefix of a sample message that keeps the header, and the sample  *)
(* followed by bytes no count announces.                                   *)
CutBuffers ==
    UNION {{SubSeq(b, 1, k) : k \in 12..(Len(b) - 1)} : b \in SampleMessages}
    \cup {b \o t : b \in SampleMessages, t \in {<<0>>, <<192, 12, 0>>}}

(* Names of exactly n elements: n - 1 reserved bytes or one-byte labels,   *)
(* then the root or a pointer.                                             *)
LongNames(n) ==
    {Rep(<<64>>, n - 1) \o <<0>>, Rep(<<1, 97>>, n - 1) \o <<0>>,
     Rep(<<1, 97>>, n - 1) \o <<192, 12>>}

MinQuestion == QuestionBytes(<<0>>, 1, 1)

MinRecord == RecordBytes(<<0>>, 1, 1, <<0, 0, 0, 0>>, <<>>)

(* Sections at and one beyond the capacities 5 and 10, with every section  *)
(* before the oversized one well formed; counts the u8 cast would wrap;    *)
(* names at and one beyond 10 elements, in a question and in each record   *)
(* section.                                                                *)
CapacityBuffers ==
    {HeaderBytes(3, 256, qd, 0, 0, 0) \o Rep(MinQuestion, k) :
        qd \in {5, 6, 261}, k \in {0, 5, 6}}
    \cup {HeaderBytes(3, 256, 1, c[1], c[2], c[3]) \o MinQuestion
              \o Rep(MinRecord, c[1] + c[2] + c[3]) :
            c \in {<<10, 0, 0>>, <<11, 0, 0>>, <<1, 10, 0>>, <<1, 11, 0>>,
                   <<0, 1, 10>>, <<1, 0, 11>>, <<10, 10, 10>>, <<10, 10, 11>>}}
    \cup {HeaderBytes(3, 256, 0, c[1], c[2], c[3]) :
            c \in {<<266, 0, 0>>, <<0, 65535, 0>>, <<0, 0, 256>>}}
    \cup {HeaderBytes(3, 256, 1, 0, 0, 0) \o QuestionBytes(n, 1, 1) :
            n \in LongNames(10) \cup LongNames(11)}
    \cup {HeaderBytes(3, 256, 1, c[1], c[2], c[3]) \o MinQuestion
              \o RecordBytes(n, 1, 1, <<0, 0, 0, 5>>, <<1>>) :
            c \in Splits(1), n \in LongNames(10) \cup LongNames(11)}

(* Buffers longer than 65535 bytes: a first record whose RDATA fills       *)
(* 65535 - k bytes, then a second record; and one with a well-formed       *)
(* answer section of that shape followed by NSCOUNT = 11.                  *)
BigBuffers ==
    {HeaderBytes(9, 33152, 0, 2, 0, 0)
        \o RecordBytes(<<0>>, 16, 1, <<0, 0, 0, 0>>, <<12>> \o Zeros(65534 - k))
        \o RecordBytes(n, 1, 1, <<0, 0, 0, 7>>, <<1, 2, 3, 4>>) :
        k \in {0, 12}, n \in {<<1, 97, 0>>}}
    \cup {HeaderBytes(9, 33152, 0, 2, 11, 0)
            \o RecordBytes(<<0>>, 16, 1, <<0, 0, 0, 0>>,
                           (<<12>> \o Zeros(65520)) \o <<255, 255>>)
            \o MinRecord}

DecodeBuffers ==
    ShortBuffers \cup RawBuffers \cup StructuredBuffers \cup CutBuffers
    \cup CapacityBuffers \cup BigBuffers

-----------------------------------------------------------------------------
(* The decode behaviours: one buffer, then each decoder in turn.           *)

NoBuilder == MessageBuilder_new(0, FALSE)

NoBuilt == [ok |-> FALSE, err |-> NotRun, buffer |-> <<>>, message |-> NoMessage]

NoMeasure ==
    [name_len |-> LenErr(NotRun), name_ref |-> NameRefErr(NotRun),
     record_len |-> LenErr(NotRun)]

Idle(m) ==
    /\ meas = NoMeasure
    /\ mode = m
    /\ pc = "start"
    /\ hdr = HeaderErr(NotRun)
    /\ nres = NameErr(NotRun)
    /\ msg = MessageErr(NotRun)
    /\ mref = MessageRefErr(NotRun)
    /\ mat = MessageErr(NotRun)
    /\ enc = EncErr(NotRun, <<>>)
    /\ out = BytesErr(NotRun)
    /\ built = NoBuilt
    /\ rec = RecordErr(NotRun)

NoArg == [kind |-> "none", header |-> NoHeader, name |-> <<>>, bytes |-> <<>>, entries |-> <<>>]

NoLoop ==
    [fn |-> "none", iter |-> 0, pos |-> 0, elements |-> <<>>, count |-> 0, done |-> FALSE,
     res |-> LenErr(NotRun)]

InitDecode ==
    /\ Idle("decode")
    /\ buf \in DecodeBuffers
    /\ start = 0
    /\ builder = NoBuilder
    /\ arg = NoArg
    /\ loop = NoLoop

DecodeHeader ==
    /\ mode = "decode" /\ pc = "start"
    /\ hdr' = decode_header(buf)
    /\ pc' = "header"
    /\ UNCHANGED <<mode, arg, loop, rec, meas, buf, start, nres, msg, mref, mat, enc, builder, out, built>>

DecodeMessage ==
    /\ mode = "decode" /\ pc = "header"
    /\ msg' = decode_message(buf)
    /\ pc' = "message"
    /\ UNCHANGED <<mode, arg, loop, rec, meas, buf, start, hdr, nres, mref, mat, enc, builder, out, built>>

DecodeMessageRef ==
    /\ mode = "decode" /\ pc = "message"
    /\ mref' = decode_message_ref(buf)
    /\ pc' = "ref"
    /\ UNCHANGED <<mode, arg, loop, rec, meas, buf, start, hdr, nres, msg, mat, enc, builder, out, built>>

(* MessageRef::decode_message on the refs, against the buffer they came from. *)
Materialize ==
    /\ mode = "decode" /\ pc = "ref" /\ mref.ok
    /\ mat' = MessageRef_decode_message(mref.mref, buf)
    /\ pc' = "materialized"
    /\ UNCHANGED <<mode, arg, loop, rec, meas, buf, start, hdr, nres, msg, mref, enc, builder, out, built>>

(* encode_message on the Message that decode_message returned.             *)
EncodeMessage ==
    /\ mode = "decode" /\ msg.ok
    /\ pc = "materialized" \/ (pc = "ref" /\ ~mref.ok)
    /\ enc' = encode_message(msg.message)
    /\ pc' = "encoded"
    /\ UNCHANGED <<mode, arg, loop, rec, meas, buf, start, hdr, nres, msg, mref, mat, builder, out, built>>

(* The record refs a MessageRef holds, section after section.              *)
AllRecordRefs(m) ==
    (as_slice(m.answer.records, m.answer.count)
     \o as_slice(m.authority.records, m.authority.count))
    \o as_slice(m.additional.records, m.additional.count)

(* The buffers a caller may hand to a ref built from b: b itself, b cut    *)
(* after the header, b without its last byte, the empty buffer, and zero   *)
(* bytes of b's length.                                                    *)
OtherBuffers(b) ==
    {b, SubSeq(b, 1, HEADER_LEN), SubSeq(b, 1, Len(b) - 1), <<>>, Zeros(Len(b))}

(* The first and the last ref of a sequence of refs.                       *)
FirstAndLast(refs) == IF refs = <<>> THEN {} ELSE {refs[1], refs[Len(refs)]}

RefArg(kind, r, data) == [NoArg EXCEPT !.kind = kind, !.entries = <<r>>, !.bytes = data]

(* QuestionRef::decode_question of a question ref against a buffer.        *)
QuestionRefDecodeQuestion ==
    /\ mode = "decode" /\ pc = "materialized"
    /\ \E q \in FirstAndLast(as_slice(mref.mref.question.questions, mref.mref.question.count)),
          data \in OtherBuffers(buf) :
           /\ arg' = RefArg("question_ref", q, data)
           /\ rec' = QuestionRef_decode_question(q, data)
    /\ pc' = "entry"
    /\ UNCHANGED <<mode, loop, meas, buf, start, hdr, nres, msg, mref, mat, enc, builder, out, built>>

(* ResourceRecordRef::decode_resource_record of a record ref against a     *)
(* buffer.                                                                 *)
ResourceRecordRefDecodeResourceRecord ==
    /\ mode = "decode" /\ pc = "materialized"
    /\ \E r \in FirstAndLast(AllRecordRefs(mref.mref)), data \in OtherBuffers(buf) :
           /\ arg' = RefArg("record_ref", r, data)
           /\ rec' = ResourceRecordRef_decode_resource_record(r, data)
    /\ pc' = "entry"
    /\ UNCHANGED <<mode, loop, meas, buf, start, hdr, nres, msg, mref, mat, enc, builder, out, built>>

NextDecode ==
    \/ DecodeHeader
    \/ DecodeMessage
    \/ DecodeMessageRef
    \/ Materialize
    \/ EncodeMessage
    \/ QuestionRefDecodeQuestion
    \/ ResourceRecordRefDecodeResourceRecord

SpecDecode == InitDecode /\ [][NextDecode]_vars

-----------------------------------------------------------------------------
(* Which results a state of a decode behaviour holds.                      *)

HeaderDone == mode = "decode" /\ pc # "start"

MessageDone == mode = "decode" /\ pc \notin {"start", "header"}

RefDone == mode = "decode" /\ pc \in {"ref", "materialized", "encoded"}

MatDone == mode = "decode" /\ pc \in {"materialized", "encoded"} /\ mref.ok

EncDone == mode = "decode" /\ pc = "encoded"

(* The records of a decoded message, section after section.                *)
AllRecords(m) == (m.answer \o m.authority) \o m.additional

HasKind(name, kind) == \E i \in 1..Len(name) : name[i].kind = kind

-----------------------------------------------------------------------------
(* C1: every buffer shorter than 12 bytes, the empty one included, makes   *)
(* decode_header, decode_message and decode_message_ref fail with          *)
(* InvalidHeaderLength, whatever its bytes.                                *)
C1_ShortBufferFails ==
    (mode = "decode" /\ Len(buf) < 12) =>
        /\ HeaderDone => (~hdr.ok /\ hdr.err = InvalidHeaderLength)
        /\ MessageDone => (~msg.ok /\ msg.err = InvalidHeaderLength)
        /\ RefDone => (~mref.ok /\ mref.err = InvalidHeaderLength)

C1_Witness ==
    /\ RefDone /\ Len(buf) = 11
    /\ hdr.err = InvalidHeaderLength
    /\ msg.err = InvalidHeaderLength
    /\ mref.err = InvalidHeaderLength

(* C2: whenever decode_message_ref succeeds, materialising its refs        *)
(* against the same buffer succeeds and gives the header, questions and    *)
(* records that decode_message gives, entry by entry.                      *)
C2_MaterializedEqualsDirect ==
    MatDone => (mat.ok /\ msg.ok /\ mat.message = msg.message)

(* The same, for the buffers a 16-bit offset can address.                  *)
C2_MaterializedEqualsDirectUpTo64K ==
    (MatDone /\ Len(buf) <= 65535) => (mat.ok /\ msg.ok /\ mat.message = msg.message)

(* The sections as the direct codec reads them, each starting where the    *)
(* one before it ended.                                                    *)
DirectQuestions(b, h) == decode_question(Slice(b, 12, Len(b)), b, 12, h.qd_count)

DirectRecords(b, offset, n) ==
    decode_resource_records(Slice(b, offset, Len(b)), b, offset, n)

DirectAnswers(b, h) == DirectRecords(b, 12 + DirectQuestions(b, h).len, h.an_count)

DirectAuthorities(b, h) ==
    DirectRecords(b, 12 + DirectQuestions(b, h).len + DirectAnswers(b, h).len,
                  h.ns_count)

NamesOf(m) ==
    {m.question[i].q_name : i \in 1..Len(m.question)}
    \cup {AllRecords(m)[i].rr_name : i \in 1..Len(AllRecords(m))}

(* A buffer decode_message reads to its last byte, whose names hold labels *)
(* and the root only.                                                      *)
WellFormedPlain ==
    /\ msg.ok
    /\ msg.len = Len(buf)
    /\ \A n \in NamesOf(msg.message) : ~HasKind(n, "Pointer") /\ ~HasKind(n, "Reserved")

(* C4: for a well-formed buffer without compression pointers, encoding the *)
(* message decode_message returns succeeds and gives back exactly the      *)
(* bytes of the buffer.                                                    *)
C4_EncodeDecodeIsIdentity ==
    (EncDone /\ WellFormedPlain) => (enc.ok /\ enc.buf = buf)

C4_Witness ==
    /\ EncDone /\ WellFormedPlain
    /\ Len(msg.message.question) >= 1
    /\ Len(msg.message.answer) >= 1
    /\ \E n \in NamesOf(msg.message) : Len(n) >= 2
    /\ enc.ok /\ enc.buf = buf /\ Len(buf) > 29

(* C5: on every buffer decode_message, decode_message_ref and the          *)
(* materialisation of the refs end with a value or with one of the three   *)
(* errors; none of them reads or writes out of bounds or aborts.           *)
C5_DecodersNeverAbort ==
    /\ HeaderDone => (hdr.ok \/ hdr.err \in ErrorKinds)
    /\ MessageDone => (msg.ok \/ msg.err \in ErrorKinds)
    /\ RefDone => (mref.ok \/ mref.err \in ErrorKinds)
    /\ MatDone => (mat.ok \/ mat.err \in ErrorKinds)

C5_Witness ==
    /\ RefDone /\ Len(buf) >= 12
    /\ ~msg.ok /\ msg.err = InsufficientData
    /\ ~mref.ok /\ mref.err = InsufficientData
    /\ hdr.header.qd_count > 0

(* C6: decode_message_ref returns no MessageRef when QDCOUNT exceeds 5 or  *)
(* ANCOUNT, NSCOUNT or ARCOUNT exceeds 10, and the error is                *)
(* InvalidDomainName when the header and the sections before the oversized *)
(* one are well formed.                                                    *)
C6_OverCapacityFails ==
    (RefDone /\ hdr.ok) =>
        LET h == hdr.header
        IN  /\ (h.qd_count > 5 \/ h.an_count > 10 \/ h.ns_count > 10 \/ h.ar_count > 10)
                  => ~mref.ok
            /\ h.qd_count > 5 => mref.err = InvalidDomainName
            /\ (h.qd_count <= 5 /\ h.an_count > 10 /\ DirectQuestions(buf, h).ok)
                  => mref.err = InvalidDomainName
            /\ (h.qd_count <= 5 /\ h.an_count <= 10 /\ h.ns_count > 10
                /\ DirectQuestions(buf, h).ok /\ DirectAnswers(buf, h).ok)
                  => mref.err = InvalidDomainName
            /\ (h.qd_count <= 5 /\ h.an_count <= 10 /\ h.ns_count <= 10
                /\ h.ar_count > 10
                /\ DirectQuestions(buf, h).ok /\ DirectAnswers(buf, h).ok
                /\ DirectAuthorities(buf, h).ok)
                  => mref.err = InvalidDomainName

(* The same, for the buffers a 16-bit offset can address.                  *)
C6_OverCapacityFailsUpTo64K == Len(buf) <= 65535 => C6_OverCapacityFails

(* C7 as stated: a name of more than 10 elements, in a question or in a    *)
(* record of any section, makes decode_message_ref fail.                   *)
C7_EveryNameAtMostTen ==
    (RefDone /\ msg.ok /\ \E n \in NamesOf(msg.message) : Len(n) > MAX_NAME_ELEMENTS)
        => ~mref.ok

(* C7, amended: every record decode_message_ref returns, in the answer,    *)
(* authority or additional section, has a name of at most 10 elements and  *)
(* all of them are recorded; a longer record name makes it fail, while a   *)
(* question name is only measured.                                         *)
C7_RecordNamesAtMostTen ==
    (RefDone /\ mref.ok) =>
        \A i \in 1..Len(AllRecordRefs(mref.mref)) :
            LET r == AllRecordRefs(mref.mref)[i]
                n == decode_name(buf, ResourceRecordRef_offset(r))
            IN  /\ n.ok
                /\ Len(n.elements) <= MAX_NAME_ELEMENTS
                /\ r.name.count = Len(n.elements)
                /\ \A j \in 1..r.name.count : r.name.elements[j].kind = n.elements[j].kind

C7_Witness ==
    /\ RefDone /\ mref.ok
    /\ \E i \in 1..Len(AllRecordRefs(mref.mref)) :
           AllRecordRefs(mref.mref)[i].name.count = MAX_NAME_ELEMENTS
    /\ \E i \in 1..Len(msg.message.question) :
           Len(msg.message.question[i].q_name) >= 1

(* A record name of 11 elements is refused.                                *)
C7_LongRecordNameRefused ==
    (RefDone /\ msg.ok /\ Len(buf) <= 65535
     /\ \E i \in 1..Len(AllRecords(msg.message)) :
            Len(AllRecords(msg.message)[i].rr_name) > MAX_NAME_ELEMENTS)
        => (~mref.ok /\ mref.err = InvalidDomainName)

-----------------------------------------------------------------------------
(* The name behaviours: decode_name on one buffer from one start offset.   *)

NameBytes == {0, 1, 2, 64, 191, 192}

(* Every value of a length byte, followed by what a name starting with it *)
(* needs to end (the label's payload and a root, or one more byte), and    *)
(* alone.                                                                  *)
BandBuffers ==
    {<<v>> \o Zeros(IF v < 64 THEN v + 1 ELSE 1) : v \in 0..255}
    \cup {<<v>> : v \in 0..255}

(* Names followed by the fixed fields and RDATA of a record, names of ten  *)
(* and of eleven elements, and a name that crosses byte 65535.             *)
BigNameBuffer == Zeros(65534) \o <<1, 97, 64, 0>>

MeasuredBuffers ==
    {<<1, 97, 0, 0, 1, 0, 1, 0, 0, 0, 60, 0, 2, 9, 9>>,
     <<0, 0, 16, 0, 1, 0, 0, 0, 0, 1, 2>> \o Zeros(258),
     <<3, 119, 119, 119, 64, 192, 12, 0, 1, 0, 1, 0, 0, 0, 0, 0, 1, 7, 8>>,
     Rep(<<1, 97>>, 9) \o <<0>>,
     Rep(<<1, 97>>, 10) \o <<0>>,
     Rep(<<64>>, 9) \o <<192, 0>>,
     BigNameBuffer}

(* Every byte string over NameBytes up to MaxNameBuf bytes, and names with *)
(* the longest label, the largest pointer, and a label cut short.          *)
NameBuffers ==
    SeqsUpTo(NameBytes, MaxNameBuf)
    \cup {(<<63>> \o Zeros(63)) \o <<0>>,
          <<63>> \o Zeros(62),
          <<255, 255>>,
          <<1, 97, 128, 255, 254>>,
          <<3, 99, 111, 109, 127, 0>>,
          <<3, 99, 111, 109, 193>>,
          <<0, 2, 1, 2, 64, 0>>}
    \cup BandBuffers
    \cup MeasuredBuffers

InitName ==
    /\ Idle("name")
    /\ buf \in NameBuffers
    /\ start \in IF Len(buf) > 65535 THEN {Len(buf) - 4} ELSE 0..Len(buf)
    /\ builder = NoBuilder
    /\ arg = NoArg
    /\ loop = NoLoop

DecodeName ==
    /\ mode = "name" /\ pc = "start"
    /\ nres' = decode_name(buf, start)
    /\ pc' = "named"
    /\ UNCHANGED <<mode, arg, loop, rec, meas, buf, start, hdr, msg, mref, mat, enc, builder, out, built>>

(* The Ref layer on the same buffer and start offset: the name measured,  *)
(* the name parsed into element refs, the record starting there measured.  *)
NameWireLengthAt ==
    /\ mode = "name" /\ pc = "named"
    /\ meas' = [meas EXCEPT !.name_len = name_wire_length_at(buf, start)]
    /\ pc' = "measured"
    /\ UNCHANGED <<mode, arg, loop, rec, buf, start, hdr, nres, msg, mref, mat, enc, builder, out, built>>

NameRefFromBuf ==
    /\ mode = "name" /\ pc = "measured"
    /\ meas' = [meas EXCEPT !.name_ref = NameRef_from_buf(buf, start)]
    /\ pc' = "parsed"
    /\ UNCHANGED <<mode, arg, loop, rec, buf, start, hdr, nres, msg, mref, mat, enc, builder, out, built>>

ResourceRecordWireLengthAt ==
    /\ mode = "name" /\ pc = "parsed"
    /\ meas' = [meas EXCEPT !.record_len = resource_record_wire_length_at(buf, start)]
    /\ pc' = "sized"
    /\ UNCHANGED <<mode, arg, loop, rec, buf, start, hdr, nres, msg, mref, mat, enc, builder, out, built>>

NextName ==
    DecodeName \/ NameWireLengthAt \/ NameRefFromBuf \/ ResourceRecordWireLengthAt

SpecName == InitName /\ [][NextName]_vars

-----------------------------------------------------------------------------
(* The builder behaviours: a builder is created, configured, given up to   *)
(* MaxEntries entries, then encoded and built.                             *)

TYPE_A == 1

CLASS_IN == 1

ExampleCom == <<101, 120, 97, 109, 112, 108, 101, 46, 99, 111, 109>>

BuilderIds == {1, 258}

BuilderFlags == {flags_from_u16(33920), flags_from_u16(65535)}

(* "example.com", ".a..b.", "." and a label of 64 bytes.                   *)
QuestionInputs ==
    {<<ExampleCom, TYPE_A, CLASS_IN>>,
     <<<<46, 97, 46, 46, 98, 46>>, 255, 3>>,
     <<<<46>>, 2, CLASS_IN>>,
     <<Rep(<<97>>, 64), TYPE_A, CLASS_IN>>}

(* "example.com" with an address, the empty name with no RDATA and the     *)
(* largest TTL, and "a" with a label of 63 bytes and 256 bytes of RDATA.   *)
RecordInputs ==
    {<<ExampleCom, TYPE_A, CLASS_IN, [hi |-> 0, lo |-> 3600], <<93, 184, 216, 34>>>>,
     <<<<>>, 41, 4096, [hi |-> 65535, lo |-> 65535], <<>>>>,
     <<<<97, 46>> \o Rep(<<98>>, 63), 16, CLASS_IN, [hi |-> 1, lo |-> 0],
       <<255>> \o Zeros(255)>>}

(* RDATA one byte longer than a 16-bit RDLENGTH can say.                   *)
LargeRdata == <<7>> \o Zeros(65535)

Entries(b) == Len(b.questions) + Len(b.answers) + Len(b.authority) + Len(b.additional)

InitBuild ==
    /\ Idle("build")
    /\ buf = <<>>
    /\ start = 0
    /\ builder \in {MessageBuilder_query(1), MessageBuilder_response(1)}
    /\ arg = NoArg
    /\ loop = NoLoop

BuildUnchanged == UNCHANGED <<mode, arg, loop, rec, meas, pc, buf, start, hdr, nres, msg, mref, mat, enc, out, built>>

SetId ==
    /\ mode = "build" /\ pc = "start"
    /\ \E id \in BuilderIds :
           /\ id # builder.id
           /\ builder' = MessageBuilder_id(builder, id)
    /\ BuildUnchanged

SetFlags ==
    /\ mode = "build" /\ pc = "start"
    /\ \E f \in BuilderFlags :
           /\ f # builder.flags
           /\ builder' = MessageBuilder_flags(builder, f)
    /\ BuildUnchanged

AddQuestion ==
    /\ mode = "build" /\ pc = "start" /\ Entries(builder) < MaxEntries
    /\ \E q \in QuestionInputs :
           builder' = MessageBuilder_question(builder, q[1], q[2], q[3])
    /\ BuildUnchanged

AddAnswer ==
    /\ mode = "build" /\ pc = "start" /\ Entries(builder) < MaxEntries
    /\ \E r \in RecordInputs :
           builder' = MessageBuilder_answer(builder, r[1], r[2], r[3], r[4], r[5])
    /\ BuildUnchanged

AddAuthority ==
    /\ mode = "build" /\ pc = "start" /\ Entries(builder) < MaxEntries
    /\ \E r \in RecordInputs :
           builder' = MessageBuilder_authority(builder, r[1], r[2], r[3], r[4], r[5])
    /\ BuildUnchanged

AddAdditional ==
    /\ mode = "build" /\ pc = "start" /\ Entries(builder) < MaxEntries
    /\ \E r \in RecordInputs :
           builder' = MessageBuilder_additional(builder, r[1], r[2], r[3], r[4], r[5])
    /\ BuildUnchanged

(* RDATA of the same length that reads as a record of its own: the name   *)
(* "a", eight zero bytes and an RDLENGTH of 65535.                         *)
RecordLikeRdata == (<<1, 97, 0>> \o Zeros(8)) \o (<<255, 255>> \o Zeros(65523))

LargeRdatas == {LargeRdata, RecordLikeRdata}

(* One answer with a large RDATA, on a fresh response builder.             *)
AddLargeAnswer ==
    /\ mode = "build" /\ pc = "start"
    /\ builder = MessageBuilder_response(1)
    /\ \E rdata \in LargeRdatas :
           builder' = MessageBuilder_answer(builder, <<97>>, 16, CLASS_IN,
                                            [hi |-> 0, lo |-> 60], rdata)
    /\ BuildUnchanged

BuildEncodeDirect ==
    /\ mode = "build" /\ pc = "start"
    /\ out' = build_encode_direct(builder)
    /\ pc' = "encoded"
    /\ UNCHANGED <<mode, arg, loop, rec, meas, buf, start, hdr, nres, msg, mref, mat, enc, builder, built>>

Build ==
    /\ mode = "build" /\ pc = "encoded"
    /\ built' = build(builder, <<>>)
    /\ pc' = "built"
    /\ UNCHANGED <<mode, arg, loop, rec, meas, buf, start, hdr, nres, msg, mref, mat, enc, builder, out>>

NextBuild ==
    \/ SetId
    \/ SetFlags
    \/ AddQuestion
    \/ AddAnswer
    \/ AddAuthority
    \/ AddAdditional
    \/ AddLargeAnswer
    \/ BuildEncodeDirect
    \/ Build

SpecBuilder == InitBuild /\ [][NextBuild]_vars

-----------------------------------------------------------------------------
BuildDone == mode = "build" /\ pc = "built"

NonEmpty(seg) == seg # <<>>

(* The label sequence a text name stands for: its non-empty segments, then *)
(* the root.                                                               *)
NameLabels(name) ==
    LET segs == SelectSeq(Split(name), NonEmpty)
    IN  [i \in 1..Len(segs) |-> Label(Len(segs[i]), segs[i])] \o <<Root>>

QuestionsRestored(qs, decoded) ==
    /\ Len(decoded) = Len(qs)
    /\ \A i \in 1..Len(qs) :
           /\ decoded[i].q_name = NameLabels(qs[i].name)
           /\ decoded[i].q_type = qs[i].q_type
           /\ decoded[i].q_class = qs[i].q_class

RecordsRestored(rs, decoded) ==
    /\ Len(decoded) = Len(rs)
    /\ \A i \in 1..Len(rs) :
           /\ decoded[i].rr_name = NameLabels(rs[i].name)
           /\ decoded[i].rr_type = rs[i].rr_type
           /\ decoded[i].rr_class = rs[i].rr_class
           /\ decoded[i].rr_ttl = rs[i].ttl
           /\ decoded[i].rr_data = rs[i].rdata

RoundTrip ==
    /\ built.ok
    /\ built.buffer = out.bytes
    /\ built.message.header.id = builder.id
    /\ built.message.header.flags = builder.flags
    /\ built.message.header.qd_count = Len(builder.questions)
    /\ built.message.header.an_count = Len(builder.answers)
    /\ built.message.header.ns_count = Len(builder.authority)
    /\ built.message.header.ar_count = Len(builder.additional)
    /\ QuestionsRestored(builder.questions, built.message.question)
    /\ RecordsRestored(builder.answers, built.message.answer)
    /\ RecordsRestored(builder.authority, built.message.authority)
    /\ RecordsRestored(builder.additional, built.message.additional)

(* C3: whatever the builder accepts, build_encode_direct followed by       *)
(* decode_message restores the counts and every entry's name, type, class, *)
(* TTL and RDATA, for every number of entries and every RDATA length.      *)
C3_BuilderRoundTrip == (BuildDone /\ out.ok) => RoundTrip

(* The same, for RDATA a 16-bit RDLENGTH can say.                          *)
C3_BuilderRoundTripUpTo64K ==
    (BuildDone /\ out.ok
     /\ \A i \in 1..Len(builder.answers) : Len(builder.answers[i].rdata) <= 65535)
        => RoundTrip

SampleBuilder ==
    MessageBuilder_question(MessageBuilder_query(1), ExampleCom, TYPE_A, CLASS_IN)

SampleMessage ==
    [header |-> [id |-> 1,
                 flags |-> [qr |-> FALSE, op_code |-> 0, aa |-> FALSE, tc |-> FALSE,
                            rd |-> TRUE, ra |-> FALSE, z |-> 0, r_code |-> 0],
                 qd_count |-> 1, an_count |-> 0, ns_count |-> 0, ar_count |-> 0],
     question |-> <<[q_name |-> <<Label(7, <<101, 120, 97, 109, 112, 108, 101>>),
                                  Label(3, <<99, 111, 109>>), Root>>,
                     q_type |-> TYPE_A, q_class |-> CLASS_IN]>>,
     answer |-> <<>>, authority |-> <<>>, additional |-> <<>>]

(* C8: the 29-byte sample decodes to id 1, QDCOUNT 1, the other counts 0   *)
(* and the one question example.com / A / IN, and                          *)
(* MessageBuilder::query(1).question("example.com", A, IN) produces        *)
(* exactly those 29 bytes through build_encode_direct and through build.   *)
C8_SampleMessage ==
    (BuildDone /\ builder = SampleBuilder) =>
        /\ Len(Sample29) = 29
        /\ out.ok /\ out.bytes = Sample29
        /\ built.ok /\ built.buffer = Sample29
        /\ built.message = SampleMessage
        /\ decode_message(Sample29).ok
        /\ decode_message(Sample29).message = SampleMessage

C8_Witness == BuildDone /\ builder = SampleBuilder /\ built.ok /\ Len(built.buffer) = 29

-----------------------------------------------------------------------------
NameDone == mode = "name" /\ pc = "named"

(* The bytes an element takes on the wire.                                 *)
Span(e) ==
    IF e.kind = "Label" THEN 1 + e.length ELSE IF e.kind = "Pointer" THEN 2 ELSE 1

RECURSIVE Spans(_, _)
Spans(elements, n) == IF n = 0 THEN 0 ELSE Spans(elements, n - 1) + Span(elements[n])

(* Where the i-th element of the decoded name starts in the buffer.        *)
ElementStart(i) == start + Spans(nres.elements, i - 1)

(* The buffer with its last byte replaced by the root: when decode_name    *)
(* reads it to that root, it reads the last byte of buf as a length byte.  *)
EndedByRoot == SubSeq(buf, 1, Len(buf) - 1) \o <<0>>

(* C9: at a length byte in [64,191] at position p decode_name appends one  *)
(* Reserved element, advances exactly one byte and goes on with the next   *)
(* element at p + 1; the name does not end there.                          *)
C9_ReservedAdvancesOne ==
    NameDone =>
        /\ (start < Len(buf) /\ At(buf, start) \in 64..191) =>
               LET rest == decode_name(buf, start + 1)
               IN  IF rest.ok
                   THEN nres = NameOk(<<Reserved>> \o rest.elements, rest.len + 1)
                   ELSE nres = NameErr(rest.err)
        /\ nres.ok =>
               /\ nres.len = Spans(nres.elements, Len(nres.elements))
               /\ \A i \in 1..Len(nres.elements) :
                      /\ (At(buf, ElementStart(i)) \in 64..191)
                             <=> (nres.elements[i] = Reserved)
                      /\ nres.elements[i] = Reserved => i < Len(nres.elements)

C9_Witness ==
    /\ NameDone /\ nres.ok
    /\ Len(nres.elements) >= 3
    /\ nres.elements[1].kind = "Label"
    /\ nres.elements[2] = Reserved
    /\ At(buf, ElementStart(2)) = 191

(* C10: at a first byte b0 >= 192 followed by b1 decode_name consumes      *)
(* exactly two bytes, appends Pointer(((b0 & 0x3F) << 8) | b1), a value in *)
(* 0..16383, and stops; with b1 beyond the end of the buffer it fails with *)
(* InsufficientData.                                                       *)
C10_PointerEndsName ==
    NameDone =>
        /\ (start < Len(buf) /\ At(buf, start) >= 192) =>
               IF start + 1 < Len(buf)
               THEN nres = NameOk(<<Pointer((At(buf, start) % 64) * 256
                                            + At(buf, start + 1))>>, 2)
               ELSE nres = NameErr(InsufficientData)
        /\ nres.ok =>
               \A i \in 1..Len(nres.elements) :
                   /\ (At(buf, ElementStart(i)) >= 192) <=> (nres.elements[i].kind = "Pointer")
                   /\ nres.elements[i].kind = "Pointer" =>
                          /\ i = Len(nres.elements)
                          /\ nres.len = ElementStart(i) - start + 2
                          /\ nres.elements[i].ptr \in 0..16383
                          /\ nres.elements[i].ptr =
                                 (At(buf, ElementStart(i)) % 64) * 256
                                 + At(buf, ElementStart(i) + 1)
        /\ (start < Len(buf) /\ buf[Len(buf)] >= 192
            /\ decode_name(EndedByRoot, start).ok
            /\ decode_name(EndedByRoot, start).len = Len(buf) - start
            /\ HasKind(decode_name(EndedByRoot, start).elements, "Root"))
               => nres = NameErr(InsufficientData)

C10_Witness ==
    /\ NameDone /\ nres.ok
    /\ Len(nres.elements) = 3
    /\ nres.elements[3] = Pointer(16382)
    /\ nres.len = 5


-----------------------------------------------------------------------------
(* The encode behaviours: one value and one destination slice, then the    *)
(* encoder for that value; a header is also decoded back from the bytes    *)
(* written, and a 12-byte header image is decoded and then encoded.        *)

MaxElems == 3

MaxDest == 8

(* A destination of n bytes, none of them yet written.                     *)
Fill(n) == [i \in 1..n |-> 170]

Dests == {Fill(n) : n \in (0..MaxDest) \cup {11, 12, 14}}

HeaderArg(h) ==
    [kind |-> "header", header |-> h, name |-> <<>>, bytes |-> <<>>, entries |-> <<>>]

NameArg(n) ==
    [kind |-> "name", header |-> NoHeader, name |-> n, bytes |-> <<>>, entries |-> <<>>]

BytesArg(b) ==
    [kind |-> "bytes", header |-> NoHeader, name |-> <<>>, bytes |-> b, entries |-> <<>>]

(* Every combination of the one-bit flags with the least, the greatest and *)
(* a middle value of each multi-bit field.                                 *)
FlagsInputs ==
    [qr : BOOLEAN, op_code : {0, 9, 15}, aa : BOOLEAN, tc : BOOLEAN, rd : BOOLEAN,
     ra : BOOLEAN, z : {0, 5, 7}, r_code : {0, 10, 15}]

HeaderInputs ==
    {[id |-> 4660, flags |-> f, qd_count |-> 1, an_count |-> 2, ns_count |-> 3,
      ar_count |-> 4] : f \in FlagsInputs}
    \cup {[id |-> i, flags |-> flags_from_u16(33152), qd_count |-> c[1], an_count |-> c[2],
           ns_count |-> c[3], ar_count |-> c[4]] :
            i \in {0, 255, 256, 65535},
            c \in {<<0, 0, 0, 0>>, <<65535, 256, 255, 1>>, <<1, 65535, 256, 255>>}}

(* Header images: every single bit of the flags word, all of them, none,   *)
(* with bytes after the header.                                            *)
HeaderImages ==
    {HeaderBytes(4660, w, 1, 2, 3, 4) \o t :
        w \in {0, 65535, 33152} \cup {Pow2(k) : k \in 0..15}, t \in {<<>>, <<9, 9>>}}
    \cup {HeaderBytes(65535, 1, 258, 772, 1286, 1800)}

ElementInputs ==
    {Label(1, <<97>>), Label(3, <<119, 119, 119>>), Pointer(12), Pointer(16383),
     Pointer(65535), Root, Reserved}

NameInputs == SeqsUpTo(ElementInputs, MaxElems)

EncodeArgs ==
    {HeaderArg(h) : h \in HeaderInputs}
    \cup {BytesArg(b) : b \in HeaderImages}
    \cup {NameArg(n) : n \in NameInputs}

QuestionsArg(qs) ==
    [kind |-> "questions", header |-> NoHeader, name |-> <<>>, bytes |-> <<>>, entries |-> qs]

RecordArg(r) ==
    [kind |-> "record", header |-> NoHeader, name |-> <<>>, bytes |-> <<>>, entries |-> <<r>>]

RecordsArg(rs) ==
    [kind |-> "records", header |-> NoHeader, name |-> <<>>, bytes |-> <<>>, entries |-> rs]

MaxEntryDest == 36

MaxList == 2

(* Every destination up to MaxEntryDest bytes, and one with room for a     *)
(* record whose name has the longest label.                                *)
EntryDests == {Fill(n) : n \in (0..MaxEntryDest) \cup {80}}

(* Names as a caller may hand them to an encoder: well formed (labels,     *)
(* then one root or pointer), and not: a reserved element, a pointer of    *)
(* more than 14 bits, a label whose length field differs from its payload, *)
(* no terminator, two roots.                                               *)
WellFormedNames ==
    {<<Root>>, <<Label(1, <<97>>), Root>>, <<Label(3, <<119, 119, 119>>), Pointer(12)>>,
     <<Pointer(16383)>>, <<Label(63, Rep(<<98>>, 63)), Root>>}

OtherNames ==
    {<<Reserved, Root>>, <<Label(1, <<97>>), Reserved>>, <<Pointer(65535)>>,
     <<Label(2, <<97>>), Root>>, <<Label(1, <<97>>)>>, <<Root, Root>>, <<>>}

EntryNameInputs == WellFormedNames \cup OtherNames

(* RDLENGTH fields and RDATA: agreeing, and disagreeing both ways.         *)
RdataInputs == {<<0, <<>>>>, <<2, <<93, 184>>>>, <<3, <<1, 2>>>>, <<1, <<1, 2>>>>}

RecordEncodeInputs ==
    {[rr_name |-> n, rr_type |-> t, rr_class |-> 1, rr_ttl |-> ttl, rr_rd_length |-> d[1],
      rr_data |-> d[2]] :
        n \in EntryNameInputs, t \in {1, 65535},
        ttl \in {BE32(0, 0, 0, 60), BE32(255, 2, 3, 4)}, d \in RdataInputs}

RecordListInputs ==
    SeqsUpTo({r \in RecordEncodeInputs :
                 /\ r.rr_name \in {<<Root>>, <<Label(3, <<119, 119, 119>>), Pointer(12)>>,
                                    <<Reserved, Root>>}
                 /\ r.rr_type = 1 /\ r.rr_ttl = BE32(0, 0, 0, 60)
                 /\ r.rr_rd_length \in {0, 2}}, MaxList)

QuestionEncodeInputs ==
    {[q_name |-> n, q_type |-> t, q_class |-> 1] :
        n \in {<<Root>>, <<Label(1, <<97>>), Root>>, <<Pointer(12)>>, <<Reserved, Root>>},
        t \in {1, 255}}

EntryArgs ==
    {RecordArg(r) : r \in RecordEncodeInputs}
    \cup {RecordsArg(rs) : rs \in RecordListInputs}
    \cup {QuestionsArg(qs) : qs \in SeqsUpTo(QuestionEncodeInputs, MaxList)}

InitEncode ==
    /\ Idle("encode")
    /\ \/ arg \in EncodeArgs /\ buf \in Dests
       \/ arg \in EntryArgs /\ buf \in EntryDests
    /\ start = 0
    /\ builder = NoBuilder
    /\ loop = NoLoop

EncodeUnchanged == UNCHANGED <<mode, arg, loop, rec, meas, buf, start, nres, msg, mref, mat, builder, out, built>>

EncodeHeader ==
    /\ mode = "encode" /\ pc = "start" /\ arg.kind = "header"
    /\ enc' = encode_header(arg.header, buf)
    /\ pc' = "encoded"
    /\ hdr' = hdr
    /\ EncodeUnchanged

(* decode_header on the destination encode_header has written.             *)
DecodeEncodedHeader ==
    /\ mode = "encode" /\ pc = "encoded" /\ arg.kind = "header" /\ enc.ok
    /\ hdr' = decode_header(enc.buf)
    /\ pc' = "decoded"
    /\ enc' = enc
    /\ EncodeUnchanged

DecodeHeaderImage ==
    /\ mode = "encode" /\ pc = "start" /\ arg.kind = "bytes"
    /\ hdr' = decode_header(arg.bytes)
    /\ pc' = "decoded"
    /\ enc' = enc
    /\ EncodeUnchanged

(* encode_header on the Header decode_header returned.                     *)
EncodeDecodedHeader ==
    /\ mode = "encode" /\ pc = "decoded" /\ arg.kind = "bytes" /\ hdr.ok
    /\ enc' = encode_header(hdr.header, buf)
    /\ pc' = "encoded"
    /\ hdr' = hdr
    /\ EncodeUnchanged

EncodeName ==
    /\ mode = "encode" /\ pc = "start" /\ arg.kind = "name"
    /\ enc' = encode_name(arg.name, buf)
    /\ pc' = "encoded"
    /\ hdr' = hdr
    /\ EncodeUnchanged

EncodeQuestion ==
    /\ mode = "encode" /\ pc = "start" /\ arg.kind = "questions"
    /\ enc' = encode_question(arg.entries, buf)
    /\ pc' = "encoded"
    /\ hdr' = hdr
    /\ EncodeUnchanged

EncodeResourceRecord ==
    /\ mode = "encode" /\ pc = "start" /\ arg.kind = "record"
    /\ enc' = encode_resource_record(arg.entries[1], buf)
    /\ pc' = "encoded"
    /\ hdr' = hdr
    /\ EncodeUnchanged

EncodeResourceRecords ==
    /\ mode = "encode" /\ pc = "start" /\ arg.kind = "records"
    /\ enc' = encode_resource_records(arg.entries, buf)
    /\ pc' = "encoded"
    /\ hdr' = hdr
    /\ EncodeUnchanged

(* decode_resource_record on the bytes encode_resource_record returned,    *)
(* &buf[..offset], as the whole message.                                   *)
DecodeEncodedRecord ==
    /\ mode = "encode" /\ pc = "encoded" /\ arg.kind = "record" /\ enc.ok
    /\ rec' = decode_resource_record(SubSeq(enc.buf, 1, enc.len), SubSeq(enc.buf, 1, enc.len), 0)
    /\ pc' = "decoded"
    /\ UNCHANGED <<mode, arg, loop, meas, buf, start, hdr, nres, msg, mref, mat, enc, builder, out,
                   built>>

NextEncode ==
    \/ EncodeHeader
    \/ DecodeEncodedHeader
    \/ DecodeHeaderImage
    \/ EncodeDecodedHeader
    \/ EncodeName
    \/ EncodeQuestion
    \/ EncodeResourceRecord
    \/ EncodeResourceRecords
    \/ DecodeEncodedRecord

SpecEncode == InitEncode /\ [][NextEncode]_vars

-----------------------------------------------------------------------------
NameEncoded == mode = "encode" /\ arg.kind = "name" /\ pc = "encoded"

(* The bytes of one element, as the claim lists them.                      *)
ElementBytes(e) ==
    IF e.kind = "Label" THEN <<e.length>> \o e.data
    ELSE IF e.kind = "Pointer" THEN <<192 + ((e.ptr \div 256) % 64), e.ptr % 256>>
    ELSE IF e.kind = "Root" THEN <<0>>
    ELSE <<>>

RECURSIVE NameBytesOf(_)
NameBytesOf(name) ==
    IF name = <<>> THEN <<>> ELSE ElementBytes(Head(name)) \o NameBytesOf(Tail(name))

(* The elements before the first Reserved one (all of them if none is).    *)
BeforeReserved(name) ==
    IF HasKind(name, "Reserved")
    THEN SubSeq(name, 1, (CHOOSE i \in 1..Len(name) :
                              /\ name[i] = Reserved
                              /\ \A j \in 1..(i - 1) : name[j] # Reserved) - 1)
    ELSE name

(* What encode_name leaves of a destination when it has written w.         *)
Written(dest, w) == w \o SubSeq(dest, Len(w) + 1, Len(dest))

(* C15 as stated: encode_name fails with InvalidDomainName whenever the    *)
(* element sequence contains a Reserved element; otherwise it writes each  *)
(* element in order (Label: length byte and payload, Pointer p: 0xC0 |     *)
(* high 6 bits of p and low 8 bits of p, Root: 0x00) and returns the       *)
(* number of bytes written.                                                *)
C15_ReservedAlwaysInvalid ==
    NameEncoded =>
        /\ HasKind(arg.name, "Reserved") => (~enc.ok /\ enc.err = InvalidDomainName)
        /\ (~HasKind(arg.name, "Reserved") /\ Len(NameBytesOf(arg.name)) <= Len(buf)) =>
               /\ enc.ok
               /\ enc.len = Len(NameBytesOf(arg.name))
               /\ enc.buf = Written(buf, NameBytesOf(arg.name))

(* C15, amended: encode_name fails with InvalidDomainName when it reaches  *)
(* a Reserved element, that is when the sequence contains one and the      *)
(* destination holds every element before the first of them; when the     *)
(* destination is too small for those it fails with InsufficientData       *)
(* instead.  Without a Reserved element and with room for all elements it  *)
(* writes them in order and returns the number of bytes written.           *)
C15_ReservedReachedInvalid ==
    NameEncoded =>
        /\ HasKind(arg.name, "Reserved") =>
               /\ ~enc.ok
               /\ enc.err = IF Len(NameBytesOf(BeforeReserved(arg.name))) <= Len(buf)
                            THEN InvalidDomainName ELSE InsufficientData
        /\ (~HasKind(arg.name, "Reserved") /\ Len(NameBytesOf(arg.name)) <= Len(buf)) =>
               /\ enc.ok
               /\ enc.len = Len(NameBytesOf(arg.name))
               /\ enc.buf = Written(buf, NameBytesOf(arg.name))

C15_Witness ==
    /\ NameEncoded
    /\ arg.name = <<Label(3, <<119, 119, 119>>), Pointer(16383), Reserved>>
    /\ Len(buf) = 5
    /\ enc.err = InsufficientData

(* A name without a Reserved element is written in full.                   *)
C15_WrittenWitness ==
    /\ NameEncoded /\ enc.ok /\ enc.len = 7 /\ Len(buf) = 8
    /\ arg.name = <<Label(3, <<119, 119, 119>>), Root, Pointer(65535)>>
    /\ enc.buf = <<3, 119, 119, 119, 0, 255, 255, 170>>


-----------------------------------------------------------------------------
(* The bits of the flags word a field occupies: the word flags_to_u16      *)
(* gives when that field alone holds its greatest value.                   *)
FlagFields == DOMAIN flags_from_u16(0)

FlagFieldMask(f) ==
    flags_to_u16([flags_from_u16(0) EXCEPT ![f] = flags_from_u16(65535)[f]])

RECURSIVE BitCount(_)
BitCount(x) == IF x = 0 THEN 0 ELSE (x % 2) + BitCount(x \div 2)

OneBitFlags == {f \in FlagFields : BitCount(FlagFieldMask(f)) = 1}

(* Every bit of the 16-bit word belongs to exactly one field, the opcode   *)
(* has 4 bits, the reserved/extension field 3 and the response code 4.     *)
FlagsLayout ==
    /\ \A k \in 0..15 :
           Cardinality({f \in FlagFields : BitAnd(FlagFieldMask(f), Pow2(k)) # 0}) = 1
    /\ BitCount(FlagFieldMask("op_code")) = 4
    /\ BitCount(FlagFieldMask("z")) = 3
    /\ BitCount(FlagFieldMask("r_code")) = 4
    /\ FlagFields = OneBitFlags \cup {"op_code", "z", "r_code"}

(* id and the four counts big-endian, in the order question, answer,       *)
(* authority, additional, around the two bytes of the flags word.          *)
HeaderImage(h, flags) ==
    <<h.id \div 256, h.id % 256, flags \div 256, flags % 256,
      h.qd_count \div 256, h.qd_count % 256, h.an_count \div 256, h.an_count % 256,
      h.ns_count \div 256, h.ns_count % 256, h.ar_count \div 256, h.ar_count % 256>>

(* encode_header and decode_header undo each other, in both directions.    *)
HeaderInverse ==
    /\ (mode = "encode" /\ arg.kind = "header" /\ pc # "start" /\ Len(buf) >= 12) =>
           /\ enc.ok /\ enc.len = 12
           /\ enc.buf = Written(buf, HeaderImage(arg.header,
                                                  flags_to_u16(arg.header.flags)))
           /\ pc = "decoded" => (hdr.ok /\ hdr.len = 12 /\ hdr.header = arg.header)
    /\ (mode = "encode" /\ arg.kind = "bytes" /\ pc = "encoded" /\ Len(buf) >= 12) =>
           /\ enc.ok /\ enc.len = 12
           /\ enc.buf = Written(buf, SubSeq(arg.bytes, 1, 12))
           /\ hdr.header.id = BE16(arg.bytes[1], arg.bytes[2])
           /\ <<hdr.header.qd_count, hdr.header.an_count, hdr.header.ns_count,
                hdr.header.ar_count>>
              = <<BE16(arg.bytes[5], arg.bytes[6]), BE16(arg.bytes[7], arg.bytes[8]),
                  BE16(arg.bytes[9], arg.bytes[10]), BE16(arg.bytes[11], arg.bytes[12])>>

(* C16 as stated: encode_header is the exact inverse of decode_header, for *)
(* every buffer of at least 12 bytes and for every header whose flags are  *)
(* a 4-bit opcode, 3 reserved/extension bits, a 4-bit response code and    *)
(* six one-bit flags disjointly covering the 16-bit flags word; id and the *)
(* four counts are big-endian in the order question, answer, authority,    *)
(* additional.                                                             *)
C16_HeaderInverseSixFlags ==
    mode = "encode" => (HeaderInverse /\ FlagsLayout /\ Cardinality(OneBitFlags) = 6)

(* C16, amended: the same with the five one-bit flags qr, aa, tc, rd and   *)
(* ra, which with the 4 + 3 + 4 bits of the other fields make the 16 bits  *)
(* of the flags word.                                                      *)
C16_HeaderInverseFiveFlags ==
    mode = "encode" =>
        /\ HeaderInverse
        /\ FlagsLayout
        /\ OneBitFlags = {"qr", "aa", "tc", "rd", "ra"}

C16_Witness ==
    /\ mode = "encode" /\ arg.kind = "header" /\ pc = "decoded" /\ Len(buf) = 14
    /\ arg.header.flags = [qr |-> TRUE, op_code |-> 9, aa |-> FALSE, tc |-> TRUE,
                           rd |-> FALSE, ra |-> TRUE, z |-> 5, r_code |-> 10]
    /\ enc.buf = <<18, 52, 202, 218, 0, 1, 0, 2, 0, 3, 0, 4, 170, 170>>
    /\ hdr.header = arg.header

(* A header image with one flag bit set is decoded and written back.       *)
C16_ImageWitness ==
    /\ mode = "encode" /\ arg.kind = "bytes" /\ pc = "encoded" /\ Len(buf) = 12
    /\ arg.bytes = HeaderBytes(4660, 1024, 1, 2, 3, 4) \o <<9, 9>>
    /\ hdr.header.flags.aa
    /\ enc.buf = SubSeq(arg.bytes, 1, 12)


-----------------------------------------------------------------------------
(* The terminating behaviours: one call is made, of a name loop that is    *)
(* then run one iteration at a time from its start offset, or of the       *)
(* message decoders on one buffer.                                         *)

MaxLoopBuf == 4

LoopBytes == {0, 1, 64, 192}

(* Every byte string over LoopBytes up to MaxLoopBuf bytes, a name of 12   *)
(* elements and the longest label.                                         *)
LoopBuffers ==
    SeqsUpTo(LoopBytes, MaxLoopBuf)
    \cup {Rep(<<64>>, 11) \o <<0>>, (<<63>> \o Zeros(63)) \o <<0>>}

LoopFns == {"decode_name", "name_wire_length_at", "parse_name_elements_into"}

(* The locals as the function sets them before its loop.                   *)
LoopStart(fn, offset) ==
    [fn |-> fn, iter |-> 0,
     pos |-> IF fn = "decode_name" THEN 0 ELSE offset,
     elements |-> IF fn = "parse_name_elements_into" THEN EmptyElements ELSE <<>>,
     count |-> 0, done |-> FALSE, res |-> LenErr(NotRun)]

(* No loop is stepped beyond this many iterations.                         *)
IterCap(b) == Len(b) + 3

(* Nothing has been called yet.                                            *)
InitTermination ==
    /\ Idle("idle")
    /\ buf = <<>>
    /\ start = 0
    /\ loop = NoLoop
    /\ arg = NoArg
    /\ builder = NoBuilder

CallUnchanged == UNCHANGED <<arg, rec, meas, pc, hdr, nres, msg, mref, mat, enc, builder, out, built>>

(* One of the three functions is entered with a buffer and a start offset. *)
CallNameLoop ==
    /\ mode = "idle"
    /\ mode' = "loop"
    /\ \E b \in LoopBuffers :
           /\ buf' = b
           /\ \E offset \in 0..Len(b), fn \in LoopFns :
                  /\ start' = offset
                  /\ loop' = LoopStart(fn, offset)
    /\ CallUnchanged

(* Buffers shorter than a header, messages cut short or extended, and     *)
(* messages at and beyond the Ref layer's capacities.                      *)
MessageBuffers == (ShortBuffers \cup CutBuffers) \cup CapacityBuffers

(* The message decoders are called on a buffer.                            *)
CallDecoders ==
    /\ mode = "idle"
    /\ mode' = "decode"
    /\ buf' \in MessageBuffers
    /\ UNCHANGED <<start, loop>>
    /\ CallUnchanged

LoopUnchanged ==
    UNCHANGED <<mode, arg, rec, meas, pc, buf, start, hdr, nres, msg, mref, mat, enc, builder, out,
                built>>

DecodeNameIteration ==
    /\ mode = "loop" /\ loop.fn = "decode_name"
    /\ ~loop.done /\ loop.iter < IterCap(buf)
    /\ loop' = decode_name_iteration(buf, start, loop)
    /\ LoopUnchanged

NameWireLengthIteration ==
    /\ mode = "loop" /\ loop.fn = "name_wire_length_at"
    /\ ~loop.done /\ loop.iter < IterCap(buf)
    /\ loop' = name_wire_length_iteration(buf, start, loop)
    /\ LoopUnchanged

ParseNameElementsIteration ==
    /\ mode = "loop" /\ loop.fn = "parse_name_elements_into"
    /\ ~loop.done /\ loop.iter < IterCap(buf)
    /\ loop' = parse_name_elements_iteration(buf, loop)
    /\ LoopUnchanged

NameLoopIteration ==
    \/ DecodeNameIteration
    \/ NameWireLengthIteration
    \/ ParseNameElementsIteration

NextTermination ==
    \/ CallNameLoop
    \/ CallDecoders
    \/ NameLoopIteration
    \/ DecodeHeader
    \/ DecodeMessage
    \/ DecodeMessageRef

(* A loop that has been entered goes on running: its next iteration is     *)
(* always taken.                                                           *)
SpecTermination ==
    /\ InitTermination
    /\ [][NextTermination]_vars
    /\ WF_vars(NameLoopIteration)

-----------------------------------------------------------------------------
(* The bytes a running loop has moved over since it started.               *)
Advanced(l) == IF l.fn = "decode_name" THEN l.pos ELSE l.pos - start

(* What the function the loop belongs to returns.                          *)
LoopResult(fn) ==
    IF fn = "decode_name" THEN decode_name(buf, start)
    ELSE IF fn = "name_wire_length_at" THEN name_wire_length_at(buf, start)
    ELSE parse_name_elements_into(buf, start)

(* Every name loop that is entered is left.                                *)
NameLoopReturns == (mode = "loop") ~> (mode = "loop" /\ loop.done)

IterationsWithinBytes == mode = "loop" => loop.iter <= Len(buf) - start

(* Every iteration that goes on has moved over at least one byte, so a     *)
(* loop is left after at most Len(buf) - start iterations when it returns  *)
(* a name, and after at most one more when it returns an error.            *)
LoopProgress ==
    mode = "loop" =>
        /\ ~loop.done => (loop.iter <= Advanced(loop) /\ Advanced(loop) <= Len(buf) - start)
        /\ loop.iter < IterCap(buf)
        /\ loop.done =>
               /\ loop.res = LoopResult(loop.fn)
               /\ loop.iter <= Len(buf) - start + 1
               /\ loop.res.ok => loop.iter <= Len(buf) - start
               /\ loop.res.err \in ErrorKinds \cup {"None"}

(* The message decoders, once called, have returned a value or an error.   *)
MessagesReturn ==
    (mode = "decode" /\ pc = "ref") =>
        /\ msg.ok \/ msg.err \in ErrorKinds
        /\ mref.ok \/ mref.err \in ErrorKinds

(* C17 as stated: every decode call terminates on every finite buffer:     *)
(* each iteration of the name loop (decode_name, name_wire_length_at,      *)
(* parse_name_elements_into) consumes at least one byte or returns, so     *)
(* decoding one name takes at most (buffer length - start) iterations, and *)
(* decode_message / decode_message_ref eventually return a value or an     *)
(* error.                                                                  *)
C17_NameLoopWithinBytes ==
    /\ [](IterationsWithinBytes /\ MessagesReturn)
    /\ NameLoopReturns

(* C17, amended: each iteration of a name loop moves over at least one     *)
(* byte or returns, so a name loop is left after at most (buffer length -  *)
(* start) iterations that go on and one that returns: at most (buffer      *)
(* length - start) iterations when it returns a name, one more when it     *)
(* finds the buffer exhausted; every call eventually returns a value or an *)
(* error.                                                                  *)
C17_NameLoopTerminates ==
    /\ [](LoopProgress /\ MessagesReturn)
    /\ NameLoopReturns

C17_Witness ==
    /\ mode = "loop" /\ loop.fn = "decode_name" /\ loop.done
    /\ buf = <<1, 1, 64, 64>> /\ start = 0
    /\ loop.iter = 4 /\ loop.res = NameErr(InsufficientData)

-----------------------------------------------------------------------------
Last(s) == s[Len(s)]

Ends(e) == e.kind \in {"Root", "Pointer"}

(* C11: every successful decode_name result is a non-empty element         *)
(* sequence whose last element is Root or Pointer and in which no earlier  *)
(* element is Root or Pointer; the consumed count is the sum of the        *)
(* elements' wire sizes (Label 1 + length, Reserved 1, Root 1, Pointer 2)  *)
(* and start + consumed never exceeds the buffer length.                   *)
C11_NameEndsOnce ==
    (NameDone /\ nres.ok) =>
        /\ Len(nres.elements) >= 1
        /\ Ends(Last(nres.elements))
        /\ \A i \in 1..(Len(nres.elements) - 1) : ~Ends(nres.elements[i])
        /\ \A i \in 1..Len(nres.elements) :
               nres.elements[i].kind = "Label" =>
                   /\ nres.elements[i].length \in 1..63
                   /\ Len(nres.elements[i].data) = nres.elements[i].length
        /\ nres.len = Spans(nres.elements, Len(nres.elements))
        /\ start + nres.len <= Len(buf)

C11_Witness ==
    /\ NameDone /\ nres.ok /\ start > 0
    /\ Len(nres.elements) = 3
    /\ nres.elements[1].kind = "Label" /\ nres.elements[1].length = 2
    /\ nres.elements[2] = Reserved
    /\ nres.elements[3] = Root
    /\ nres.len = 5 /\ start + nres.len = Len(buf)

(* Buffers that agree with buf on the bytes from..(to - 1) and differ      *)
(* around them: every byte before is replaced by one value, and what       *)
(* follows is replaced by up to MaxTail other bytes.                       *)
MaxTail == 2

OtherBytes == {0, 63, 192, 255}

Variants(b, from, to) ==
    {([i \in 1..from |-> v] \o SubSeq(b, from + 1, to)) \o tail :
        v \in OtherBytes, tail \in SeqsUpTo(OtherBytes, MaxTail)}

(* C12: decode_name never follows a compression pointer: its elements and  *)
(* consumed count depend only on the bytes start..(start + consumed - 1),  *)
(* so every buffer that agrees with buf on that range gives the same       *)
(* result, whatever lies at the pointer's target or elsewhere; the same    *)
(* holds for the length name_wire_length_at measures.                      *)
C12_PointerNotFollowed ==
    (NameDone /\ nres.ok) =>
        \A other \in Variants(buf, start, start + nres.len) :
            /\ decode_name(other, start) = nres
            /\ name_wire_length_at(other, start) = LenOk(nres.len)

(* A pointer to offset 0 is decoded where offset 0 holds a root byte, a    *)
(* label and a pointer to itself alike.                                    *)
C12_Witness ==
    /\ NameDone /\ nres.ok /\ start = 1
    /\ nres.elements = <<Pointer(0)>>
    /\ buf[1] = 0
    /\ \E other \in Variants(buf, start, start + nres.len) :
           other[1] = 192 /\ Len(other) > Len(buf)

-----------------------------------------------------------------------------
(* C13: build succeeds whenever build_encode_direct succeeds on the same   *)
(* builder; it leaves in the buffer exactly the bytes build_encode_direct  *)
(* returns and returns decode_message of those bytes, so everything the    *)
(* builder encodes also decodes without error.                             *)
C13_BuildDecodesItsOutput ==
    (BuildDone /\ out.ok) =>
        /\ built.ok
        /\ built.buffer = out.bytes
        /\ decode_message(out.bytes).ok
        /\ built.message = decode_message(out.bytes).message

HasLargeRdata(b) ==
    \E i \in 1..Len(AllRecords([answer |-> b.answers, authority |-> b.authority,
                                additional |-> b.additional])) :
        Len(AllRecords([answer |-> b.answers, authority |-> b.authority,
                        additional |-> b.additional])[i].rdata) > 65535

(* The same, for RDATA a 16-bit RDLENGTH can say; and when                 *)
(* build_encode_direct fails, build fails with the same error.             *)
C13_BuildDecodesItsOutputUpTo64K ==
    BuildDone =>
        /\ (out.ok /\ ~HasLargeRdata(builder)) => C13_BuildDecodesItsOutput
        /\ ~out.ok => (~built.ok /\ built.err = out.err)
        /\ out.ok => (built.buffer = out.bytes /\ built.err = decode_message(out.bytes).err)

-----------------------------------------------------------------------------
EncodeDone == mode = "build" /\ pc \in {"encoded", "built"}

(* The labels of a text name, read off the text itself: the maximal runs   *)
(* of bytes other than '.', from left to right.                            *)
RunStarts(name) ==
    {i \in 1..Len(name) : name[i] # DOT /\ (i = 1 \/ name[i - 1] = DOT)}

RunEnd(name, i) ==
    CHOOSE j \in i..Len(name) :
        /\ \A k \in i..j : name[k] # DOT
        /\ j = Len(name) \/ name[j + 1] = DOT

Run(name, i) == SubSeq(name, i, RunEnd(name, i))

RECURSIVE RunsWire(_, _)
RunsWire(name, from) ==
    IF \A i \in RunStarts(name) : i < from THEN <<0>>
    ELSE LET i == CHOOSE a \in RunStarts(name) :
                      a >= from /\ \A x \in RunStarts(name) : x >= from => a <= x
         IN  (<<Len(Run(name, i))>> \o Run(name, i)) \o RunsWire(name, RunEnd(name, i) + 1)

(* One length byte and the bytes of each run, then one 0 byte.             *)
ExpectedNameWire(name) == RunsWire(name, 1)

TooLong(name) == \E i \in RunStarts(name) : Len(Run(name, i)) > 63

EntryNames(b) ==
    {b.questions[i].name : i \in 1..Len(b.questions)}
    \cup {b.answers[i].name : i \in 1..Len(b.answers)}
    \cup {b.authority[i].name : i \in 1..Len(b.authority)}
    \cup {b.additional[i].name : i \in 1..Len(b.additional)}

(* Every entry of the builder with the bytes that follow its name: 4 for a *)
(* question, 10 and the RDATA for a record.                                *)
EntryLayout(b) ==
    [i \in 1..Len(b.questions) |-> [name |-> b.questions[i].name, rest |-> 4]]
    \o [i \in 1..Len(AllRecords([answer |-> b.answers, authority |-> b.authority,
                                 additional |-> b.additional])) |->
          LET r == AllRecords([answer |-> b.answers, authority |-> b.authority,
                               additional |-> b.additional])[i]
          IN  [name |-> r.name, rest |-> 10 + Len(r.rdata)]]

(* Each entry's name stands in its expected wire form where the entry      *)
(* starts, and the entries fill the bytes from offset to the end.          *)
RECURSIVE NamesPlaced(_, _, _)
NamesPlaced(entries, bytes, offset) ==
    IF entries = <<>> THEN offset = Len(bytes)
    ELSE LET w == ExpectedNameWire(Head(entries).name)
         IN  /\ offset + Len(w) <= Len(bytes)
             /\ SubSeq(bytes, offset + 1, offset + Len(w)) = w
             /\ NamesPlaced(Tail(entries), bytes, offset + Len(w) + Head(entries).rest)

(* C14: the builder converts a text name by splitting on '.', dropping     *)
(* every empty segment (leading, trailing and doubled dots, the empty name *)
(* and "." add no label), writing each remaining segment as one length     *)
(* byte plus its bytes and always appending one 0 byte; a non-empty        *)
(* segment longer than 63 bytes makes build_encode_direct and build fail   *)
(* with InvalidDomainName.                                                 *)
C14_TextNameToWire ==
    EncodeDone =>
        /\ \A n \in EntryNames(builder) :
               IF TooLong(n) THEN encode_name_bytes(n) = BytesErr(InvalidDomainName)
               ELSE encode_name_bytes(n) = BytesOk(ExpectedNameWire(n))
        /\ encode_name_bytes(<<>>) = BytesOk(<<0>>)
        /\ encode_name_bytes(<<DOT>>) = BytesOk(<<0>>)
        /\ IF \E n \in EntryNames(builder) : TooLong(n)
           THEN /\ out = BytesErr(InvalidDomainName)
                /\ BuildDone => (~built.ok /\ built.err = InvalidDomainName)
           ELSE /\ out.ok
                /\ NamesPlaced(EntryLayout(builder), out.bytes, 12)

C14_Witness ==
    /\ BuildDone /\ out.ok
    /\ Len(builder.questions) = 1 /\ Len(builder.answers) = 1
    /\ builder.questions[1].name = <<46, 97, 46, 46, 98, 46>>
    /\ builder.answers[1].name = <<97, 46>> \o Rep(<<98>>, 63)
    /\ SubSeq(out.bytes, 13, 17) = <<1, 97, 1, 98, 0>>
    /\ SubSeq(out.bytes, 22, 25) = <<1, 97, 63, 98>>

-----------------------------------------------------------------------------
(* Truncated messages.                                                     *)

(* The cuts looked at: every prefix length of a buffer of up to 2 * MaxCut *)
(* bytes, and the first and last MaxCut prefix lengths of a longer one.    *)
MaxCut == 32

CutPoints(b) == {k \in 0..(Len(b) - 1) : k <= MaxCut \/ k >= Len(b) - MaxCut}

Prefix(b, k) == SubSeq(b, 1, k)

WholeAccepted == mode = "decode" /\ pc = "message" /\ msg.ok /\ msg.len = Len(buf)

(* C18: when decode_message accepts a buffer and consumes all of it, it    *)
(* fails on every proper prefix of that buffer, with InvalidHeaderLength   *)
(* when the prefix is shorter than 12 bytes and InsufficientData           *)
(* otherwise; no prefix decodes to a message with fewer entries.           *)
C18_TruncatedFails ==
    WholeAccepted =>
        \A k \in CutPoints(buf) :
            decode_message(Prefix(buf, k)) =
                MessageErr(IF k < HEADER_LEN THEN InvalidHeaderLength ELSE InsufficientData)

(* A message of a question and two records, cut inside the last record,   *)
(* between the two records, inside the RDATA of the first and inside the   *)
(* question.                                                               *)
C18_Witness ==
    /\ WholeAccepted
    /\ Len(buf) = 48 /\ Len(msg.message.answer) = 1 /\ Len(msg.message.additional) = 1
    /\ msg.message.answer[1].rr_rd_length = 2
    /\ msg.message.additional[1].rr_rd_length = 3
    /\ \A k \in {47, 34, 33, 14} : decode_message(Prefix(buf, k)).err = InsufficientData
    /\ decode_message(Prefix(buf, 11)).err = InvalidHeaderLength

C18_BigWitness == WholeAccepted /\ Len(buf) > 65536

-----------------------------------------------------------------------------
(* Section layout of a decoded message.                                    *)

NameSpan(name) == Spans(name, Len(name))

QuestionSpan(q) == NameSpan(q.q_name) + 4

RecordSpan(r) == NameSpan(r.rr_name) + 10 + r.rr_rd_length

(* The bytes the first n entries of a section take.                        *)
RECURSIVE QuestionsSpan(_, _)
QuestionsSpan(qs, n) == IF n = 0 THEN 0 ELSE QuestionsSpan(qs, n - 1) + QuestionSpan(qs[n])

RECURSIVE RecordsSpan(_, _)
RecordsSpan(rs, n) == IF n = 0 THEN 0 ELSE RecordsSpan(rs, n - 1) + RecordSpan(rs[n])

(* One entry decoded on its own at offset o of the message.                *)
QuestionAt(b, o) == decode_question(Slice(b, o, Len(b)), b, o, 1)

RecordAt(b, o) == decode_resource_record(Slice(b, o, Len(b)), b, o)

(* The entries of a section stand one after another from offset o.         *)
QuestionsFrom(b, o, qs) ==
    \A i \in 1..Len(qs) :
        LET at == o + QuestionsSpan(qs, i - 1)
        IN  /\ at <= Len(b)
            /\ QuestionAt(b, at) = [ok |-> TRUE, err |-> "None", questions |-> <<qs[i]>>,
                                    len |-> QuestionSpan(qs[i])]

RecordsFrom(b, o, rs) ==
    \A i \in 1..Len(rs) :
        LET at == o + RecordsSpan(rs, i - 1)
        IN  /\ at <= Len(b)
            /\ RecordAt(b, at) = [ok |-> TRUE, err |-> "None", record |-> rs[i],
                                  len |-> RecordSpan(rs[i])]

MessageAccepted == mode = "decode" /\ pc = "message" /\ msg.ok

(* C19: decode_message reads the header from bytes 0..11 and then the      *)
(* question, answer, authority and additional sections in that order;      *)
(* each section starts at the byte where the one before it ended, takes    *)
(* exactly the sum of its entries' wire lengths, and holds exactly as many *)
(* entries as its header count; a section whose count is 0 is empty and    *)
(* takes no bytes.                                                         *)
C19_SectionsInOrder ==
    MessageAccepted =>
        LET m  == msg.message
            h  == decode_header(Prefix(buf, HEADER_LEN)).header
            o1 == HEADER_LEN + QuestionsSpan(m.question, Len(m.question))
            o2 == o1 + RecordsSpan(m.answer, Len(m.answer))
            o3 == o2 + RecordsSpan(m.authority, Len(m.authority))
            o4 == o3 + RecordsSpan(m.additional, Len(m.additional))
        IN  /\ m.header = h
            /\ Len(m.question) = h.qd_count /\ Len(m.answer) = h.an_count
            /\ Len(m.authority) = h.ns_count /\ Len(m.additional) = h.ar_count
            /\ QuestionsFrom(buf, HEADER_LEN, m.question)
            /\ RecordsFrom(buf, o1, m.answer)
            /\ RecordsFrom(buf, o2, m.authority)
            /\ RecordsFrom(buf, o3, m.additional)
            /\ msg.len = o4 /\ o4 <= Len(buf)
            /\ decode_question(Slice(buf, o1, Len(buf)), buf, o1, 0)
                   = [ok |-> TRUE, err |-> "None", questions |-> <<>>, len |-> 0]
            /\ DirectRecords(buf, o2, 0)
                   = [ok |-> TRUE, err |-> "None", records |-> <<>>, len |-> 0]

(* All four sections filled: one question and ten records in each record   *)
(* section.                                                                *)
C19_Witness ==
    /\ MessageAccepted
    /\ Len(msg.message.question) = 1 /\ Len(msg.message.answer) = 10
    /\ Len(msg.message.authority) = 10 /\ Len(msg.message.additional) = 10
    /\ msg.len = Len(buf)

(* An empty section between two filled ones, with entries of different     *)
(* lengths around it.                                                      *)
C19_EmptySectionWitness ==
    /\ MessageAccepted
    /\ Len(msg.message.question) = 2 /\ Len(msg.message.answer) = 1
    /\ Len(msg.message.authority) = 0 /\ Len(msg.message.additional) = 1
    /\ msg.message.question[1].q_name # msg.message.question[2].q_name
    /\ msg.message.answer[1].rr_rd_length = 2
    /\ msg.message.additional[1].rr_rd_length = 3

-----------------------------------------------------------------------------
(* Records whose own name ends with a pointer.                             *)

(* The record r has its fixed fields in the 10 bytes from p + 2 and its    *)
(* RDATA from p + 12, where p is the offset of the pointer's first byte.   *)
FieldsAfterPointer(b, p, r) ==
    /\ p + 12 <= Len(b)
    /\ At(b, p) >= 192
    /\ r.rr_type = BE16(At(b, p + 2), At(b, p + 3))
    /\ r.rr_class = BE16(At(b, p + 4), At(b, p + 5))
    /\ r.rr_ttl = BE32(At(b, p + 6), At(b, p + 7), At(b, p + 8), At(b, p + 9))
    /\ r.rr_rd_length = BE16(At(b, p + 10), At(b, p + 11))
    /\ p + 12 + r.rr_rd_length <= Len(b)
    /\ r.rr_data = Slice(b, p + 12, p + 12 + r.rr_rd_length)
    /\ Len(r.rr_data) = r.rr_rd_length

BothDecoded == mode = "decode" /\ pc = "ref"

(* The records decode_message returned, each with the offset it starts at. *)
DecodedRecordsPlaced ==
    LET m  == msg.message
        rs == AllRecords(m)
        o1 == HEADER_LEN + QuestionsSpan(m.question, Len(m.question))
    IN  [i \in 1..Len(rs) |-> [record |-> rs[i], at |-> o1 + RecordsSpan(rs, i - 1)]]

PointerEnded(name) == name # <<>> /\ Last(name).kind = "Pointer"

RefPointerEnded(name) ==
    name.count > 0 /\ name.elements[name.count].kind = "Pointer"

(* C20: a pointer in a record's own name ends only the name.  For a record *)
(* whose name ends with a pointer at bytes p and p + 1, type, class, TTL   *)
(* and RDLENGTH are the 10 bytes from p + 2, the RDATA is the RDLENGTH     *)
(* bytes from p + 12, and the record takes name length + 10 + RDLENGTH     *)
(* bytes; the Ref layer gives the record the same length.                  *)
C20_PointerEndsOnlyName ==
    BothDecoded =>
        /\ msg.ok =>
              \A i \in 1..Len(DecodedRecordsPlaced) :
                  LET e == DecodedRecordsPlaced[i]
                      r == e.record
                      p == e.at + NameSpan(r.rr_name) - 2
                  IN  PointerEnded(r.rr_name) =>
                          /\ FieldsAfterPointer(buf, p, r)
                          /\ RecordAt(buf, e.at).len = NameSpan(r.rr_name) + 10 + r.rr_rd_length
                          /\ resource_record_wire_length_at(buf, e.at)
                                 = LenOk(NameSpan(r.rr_name) + 10 + r.rr_rd_length)
        /\ mref.ok =>
              \A i \in 1..Len(AllRecordRefs(mref.mref)) :
                  LET ref == AllRecordRefs(mref.mref)[i]
                      s   == ResourceRecordRef_offset(ref)
                      p   == ref.name.elements[ref.name.count].offset
                      d   == RecordAt(buf, s)
                  IN  RefPointerEnded(ref.name) =>
                          /\ d.ok
                          /\ PointerEnded(d.record.rr_name)
                          /\ FieldsAfterPointer(buf, p, d.record)
                          /\ ref.len = (p + 2 - s) + 10 + d.record.rr_rd_length
                          /\ d.len = ref.len

(* Both layers accepted a message holding a record named by a label and a  *)
(* pointer, and one named by a pointer alone with RDATA after it.          *)
C20_Witness ==
    /\ BothDecoded /\ msg.ok /\ mref.ok
    /\ \E i \in 1..Len(DecodedRecordsPlaced) :
           LET r == DecodedRecordsPlaced[i].record
           IN  /\ Len(r.rr_name) = 2 /\ PointerEnded(r.rr_name)
               /\ r.rr_type = 5 /\ r.rr_ttl = BE32(255, 2, 3, 4)
    /\ \E i \in 1..Len(AllRecordRefs(mref.mref)) :
           RefPointerEnded(AllRecordRefs(mref.mref)[i].name)

C20_RdataWitness ==
    /\ BothDecoded /\ msg.ok /\ mref.ok
    /\ \E i \in 1..Len(DecodedRecordsPlaced) :
           LET r == DecodedRecordsPlaced[i].record
           IN  /\ Len(r.rr_name) = 1 /\ PointerEnded(r.rr_name)
               /\ r.rr_data = <<10, 0>>

-----------------------------------------------------------------------------
(* Destinations too small for what is encoded into them.                   *)

EncodedOnce == mode = "encode" /\ pc = "encoded"

(* The bytes an entry needs: its name element by element, then 4 bytes for *)
(* a question, 10 bytes and the RDATA for a record.                        *)
NeededName(name) == Len(NameBytesOf(name))

NeededRecord(r) == NeededName(r.rr_name) + 10 + Len(r.rr_data)

RECURSIVE NeededEntries(_, _)
NeededEntries(kind, entries) ==
    IF entries = <<>> THEN 0
    ELSE (IF kind = "questions" THEN NeededName(Head(entries).q_name) + 4
          ELSE NeededRecord(Head(entries)))
         + NeededEntries(kind, Tail(entries))

Needed ==
    IF arg.kind \in {"header", "bytes"} THEN HEADER_LEN
    ELSE IF arg.kind = "name" THEN NeededName(arg.name)
    ELSE NeededEntries(arg.kind, arg.entries)

EntryName(kind, e) == IF kind = "questions" THEN e.q_name ELSE e.rr_name

(* No name handed to the encoder holds a Reserved element, for which there *)
(* are no bytes to write.                                                  *)
Encodable ==
    /\ arg.kind = "name" => ~HasKind(arg.name, "Reserved")
    /\ arg.kind \in {"questions", "record", "records"} =>
           \A i \in 1..Len(arg.entries) :
               ~HasKind(EntryName(arg.kind, arg.entries[i]), "Reserved")

(* C21: an encode operation given a destination smaller than the bytes it  *)
(* needs returns an error and never writes past the end of the             *)
(* destination: encode_name, encode_question, encode_resource_record and   *)
(* encode_resource_records return InsufficientData, and encode_header      *)
(* given fewer than 12 bytes returns InvalidHeaderLength having written    *)
(* nothing.                                                                *)
C21_SmallDestinationFails ==
    EncodedOnce =>
        /\ Len(enc.buf) = Len(buf)
        /\ enc.ok => enc.len <= Len(buf)
        /\ arg.kind \in {"header", "bytes"} =>
               IF Len(buf) < HEADER_LEN THEN enc = EncErr(InvalidHeaderLength, buf)
               ELSE enc.ok /\ enc.len = HEADER_LEN
        /\ (arg.kind \notin {"header", "bytes"} /\ Encodable) =>
               IF Len(buf) < Needed THEN ~enc.ok /\ enc.err = InsufficientData
               ELSE enc.ok /\ enc.len = Needed
        /\ (~Encodable /\ Len(buf) < Needed) =>
               ~enc.ok /\ enc.err \in {InsufficientData, InvalidDomainName}

(* A record whose name and fixed fields fit and whose RDATA does not.      *)
C21_Witness ==
    /\ EncodedOnce /\ arg.kind = "record" /\ Encodable
    /\ arg.entries[1].rr_name = <<Label(1, <<97>>), Root>>
    /\ Len(arg.entries[1].rr_data) = 2
    /\ Len(buf) = 14 /\ Needed = 15
    /\ enc.err = InsufficientData
    /\ SubSeq(enc.buf, 1, 3) = <<1, 97, 0>>

C21_HeaderWitness ==
    /\ EncodedOnce /\ arg.kind = "header" /\ Len(buf) = 11
    /\ enc = EncErr(InvalidHeaderLength, Fill(11))

C21_ListWitness ==
    /\ EncodedOnce /\ arg.kind = "records" /\ Encodable /\ Len(arg.entries) = 2
    /\ Len(buf) = Needed - 1 /\ enc.err = InsufficientData

C21_QuestionWitness ==
    /\ EncodedOnce /\ arg.kind = "questions" /\ Encodable /\ Len(arg.entries) = 2
    /\ Len(buf) = Needed - 4 /\ enc.err = InsufficientData

-----------------------------------------------------------------------------
(* The bands of a length byte.                                             *)

Band(v) ==
    IF v = 0 THEN "Root"
    ELSE IF v \in 1..63 THEN "Label"
    ELSE IF v \in 64..191 THEN "Reserved"
    ELSE "Pointer"

(* C22: decode_name never returns InvalidDomainName.  The bands 0, 1..63,  *)
(* 64..191 and 192..255 cover every length byte, so for every buffer and   *)
(* start offset the only error is InsufficientData.                        *)
C22_OnlyInsufficientData ==
    NameDone =>
        /\ nres.ok \/ nres = NameErr(InsufficientData)
        /\ start >= Len(buf) => nres = NameErr(InsufficientData)
        /\ nres.ok => nres.elements[1].kind = Band(At(buf, start))

(* A label of the greatest length cut one byte short, and a reserved byte  *)
(* as the last byte of the buffer.                                         *)
C22_Witness ==
    /\ NameDone /\ nres = NameErr(InsufficientData)
    /\ start = 0 /\ Len(buf) = 63 /\ At(buf, 0) = 63

C22_ReservedWitness ==
    /\ NameDone /\ nres = NameErr(InsufficientData)
    /\ start = 0 /\ buf = <<191>>

C22_BandsWitness ==
    /\ NameDone /\ nres.ok /\ start = 0 /\ Len(buf) = 2
    /\ At(buf, 0) \in {64, 127, 128, 191} /\ nres.elements = <<Reserved, Root>>

-----------------------------------------------------------------------------
(* Builder calls and the order of the output.                              *)

Bytes2(x) == <<(x \div 256) % 256, x % 256>>

(* The place of a type or class code, whose two bytes are left open.       *)
AnyCode == <<-1, -1>>

ExpectedQuestion(q) == (ExpectedNameWire(q.name) \o AnyCode) \o AnyCode

(* RDLENGTH is written as the low 16 bits of the RDATA length.             *)
ExpectedRecord(r) ==
    (((ExpectedNameWire(r.name) \o AnyCode) \o AnyCode)
     \o ((Bytes2(r.ttl.hi) \o Bytes2(r.ttl.lo)) \o Bytes2(Len(r.rdata))))
    \o r.rdata

ExpectedRecords(rs) == Concat([i \in 1..Len(rs) |-> ExpectedRecord(rs[i])])

(* Header, questions, answers, authority, additional: each list in the     *)
(* order of its entries.                                                   *)
ExpectedOutput(b) ==
    (HeaderBytes(b.id, flags_to_u16(b.flags), Len(b.questions), Len(b.answers),
                 Len(b.authority), Len(b.additional))
     \o Concat([i \in 1..Len(b.questions) |-> ExpectedQuestion(b.questions[i])]))
    \o ((ExpectedRecords(b.answers) \o ExpectedRecords(b.authority))
        \o ExpectedRecords(b.additional))

Matches(bytes, expected) ==
    /\ Len(bytes) = Len(expected)
    /\ \A i \in 1..Len(expected) : expected[i] = -1 \/ bytes[i] = expected[i]

OutputInOrder == (EncodeDone /\ out.ok) => Matches(out.bytes, ExpectedOutput(builder))

(* The fields of the builder other than f.                                 *)
Others(b, f) == [x \in (DOMAIN b) \ {f} |-> b[x]]

(* The step appends one entry to the list f and to no other.               *)
Appends(f) ==
    /\ Len(builder'[f]) = Len(builder[f]) + 1
    /\ SubSeq(builder'[f], 1, Len(builder[f])) = builder[f]
    /\ Others(builder', f) = Others(builder, f)

CallEffect ==
    /\ IF SetId
       THEN /\ builder'.id \in BuilderIds \ {builder.id}
            /\ Others(builder', "id") = Others(builder, "id")
       ELSE builder'.id = builder.id
    /\ IF SetFlags
       THEN /\ builder'.flags \in BuilderFlags \ {builder.flags}
            /\ Others(builder', "flags") = Others(builder, "flags")
       ELSE builder'.flags = builder.flags
    /\ IF AddQuestion THEN Appends("questions")
       ELSE builder'.questions = builder.questions
    /\ IF AddAnswer \/ AddLargeAnswer THEN Appends("answers")
       ELSE builder'.answers = builder.answers
    /\ IF AddAuthority THEN Appends("authority")
       ELSE builder'.authority = builder.authority
    /\ IF AddAdditional THEN Appends("additional")
       ELSE builder'.additional = builder.additional

(* C23: the last id() and the last flags() call win; question, answer,     *)
(* authority and additional each append to their own list and leave the    *)
(* other lists, the id and the flags unchanged; and the encoded output     *)
(* holds the header, then all questions, all answers, all authority        *)
(* records and all additional records, each list in the order its entries  *)
(* were added, however the calls for different sections were interleaved.  *)
C23_CallsDetermineOutput == [][CallEffect]_vars /\ []OutputInOrder

(* An id and flags set after the entries were added, and an authority      *)
(* record and an answer that differ: the answer stands first in the        *)
(* output whichever was added first.                                       *)
C23_Witness ==
    /\ EncodeDone /\ out.ok
    /\ builder.id = 258 /\ builder.flags = flags_from_u16(65535)
    /\ Len(builder.answers) = 1 /\ Len(builder.authority) = 1
    /\ builder.answers[1].rdata = <<>> /\ builder.authority[1].rdata # <<>>
    /\ SubSeq(out.bytes, 1, 12) = <<1, 2, 255, 255, 0, 0, 0, 1, 0, 1, 0, 0>>
    /\ out.bytes[13] = 0 /\ SubSeq(out.bytes, 18, 23) = <<255, 255, 255, 255, 0, 0>>

C23_SameSectionWitness ==
    /\ EncodeDone /\ out.ok
    /\ Len(builder.questions) = 2
    /\ builder.questions[1].name = <<46>> /\ builder.questions[2].name = ExampleCom
    /\ out.bytes[13] = 0 /\ SubSeq(out.bytes, 18, 25) = <<7>> \o SubSeq(ExampleCom, 1, 7)

-----------------------------------------------------------------------------
(* Counts and RDLENGTH fields of the builder's output.                     *)

BuilderRecords(b) ==
    AllRecords([answer |-> b.answers, authority |-> b.authority, additional |-> b.additional])

RECURSIVE QuestionsWritten(_, _)
QuestionsWritten(qs, n) ==
    IF n = 0 THEN 0
    ELSE QuestionsWritten(qs, n - 1) + Len(ExpectedNameWire(qs[n].name)) + 4

RECURSIVE RecordsWritten(_, _)
RecordsWritten(rs, n) ==
    IF n = 0 THEN 0
    ELSE RecordsWritten(rs, n - 1) + Len(ExpectedNameWire(rs[n].name)) + 10 + Len(rs[n].rdata)

(* Where the RDLENGTH field of the i-th record stands in the output.       *)
RdlengthOffset(b, i) ==
    HEADER_LEN + QuestionsWritten(b.questions, Len(b.questions))
    + RecordsWritten(BuilderRecords(b), i - 1)
    + Len(ExpectedNameWire(BuilderRecords(b)[i].name)) + 8

Field16(bytes, offset) == At(bytes, offset) * 256 + At(bytes, offset + 1)

CountsAsWritten ==
    /\ Field16(out.bytes, 4) = Len(builder.questions)
    /\ Field16(out.bytes, 6) = Len(builder.answers)
    /\ Field16(out.bytes, 8) = Len(builder.authority)
    /\ Field16(out.bytes, 10) = Len(builder.additional)

RdlengthAsWritten(i) ==
    LET r == BuilderRecords(builder)[i]
        p == RdlengthOffset(builder, i)
    IN  /\ p + 2 + Len(r.rdata) <= Len(out.bytes)
        /\ Field16(out.bytes, p) = Len(r.rdata)
        /\ Slice(out.bytes, p + 2, p + 2 + Len(r.rdata)) = r.rdata

(* C24: in every output of build_encode_direct the four header counts      *)
(* equal the number of entries written in the question, answer, authority  *)
(* and additional sections, and each record's RDLENGTH field equals the    *)
(* number of RDATA bytes written after it, for any number of entries and   *)
(* any RDATA length.                                                       *)
C24_CountsAndRdlength ==
    (EncodeDone /\ out.ok) =>
        /\ CountsAsWritten
        /\ \A i \in 1..Len(BuilderRecords(builder)) : RdlengthAsWritten(i)

(* The same for RDATA of at most 65535 bytes; a longer RDATA is written    *)
(* whole after an RDLENGTH field holding the low 16 bits of its length.    *)
C24_CountsAndRdlengthUpTo64K ==
    (EncodeDone /\ out.ok) =>
        /\ CountsAsWritten
        /\ \A i \in 1..Len(BuilderRecords(builder)) :
               LET r == BuilderRecords(builder)[i]
                   p == RdlengthOffset(builder, i)
               IN  IF Len(r.rdata) <= 65535 THEN RdlengthAsWritten(i)
                   ELSE /\ Field16(out.bytes, p) = Len(r.rdata) % 65536
                        /\ Slice(out.bytes, p + 2, p + 2 + Len(r.rdata)) = r.rdata

-----------------------------------------------------------------------------
(* Offsets and lengths recorded by the Ref layer.                          *)

RefAccepted == mode = "decode" /\ pc = "ref" /\ mref.ok

Place(offset, len) == [offset |-> offset, len |-> len]

QuestionPlaces(section) ==
    [i \in 1..section.count |-> Place(section.questions[i].offset, section.questions[i].len)]

RecordPlaces(section) ==
    [i \in 1..section.count |->
        Place(ResourceRecordRef_offset(section.records[i]), section.records[i].len)]

(* Every recorded entry, section after section.                            *)
RefPlaces(m) ==
    (QuestionPlaces(m.question) \o RecordPlaces(m.answer))
    \o (RecordPlaces(m.authority) \o RecordPlaces(m.additional))

(* Where a section ends that starts at from and holds these entries.       *)
EndOf(from, places) ==
    IF places = <<>> THEN from ELSE Last(places).offset + Last(places).len

(* C25: when decode_message_ref succeeds, the recorded entries tile the    *)
(* buffer from byte 12 in section order: the first entry starts at 12,     *)
(* every later entry starts at the previous entry's offset plus its len,   *)
(* each section's end_offset is the end of its last entry (the section's   *)
(* start when its count is 0), each section's count equals the header      *)
(* count, and every entry's offset + len is at most the buffer length.     *)
C25_EntriesTile ==
    RefAccepted =>
        LET m  == mref.mref
            h  == decode_header(buf).header
            ps == RefPlaces(m)
            e1 == EndOf(HEADER_LEN, QuestionPlaces(m.question))
            e2 == EndOf(e1, RecordPlaces(m.answer))
            e3 == EndOf(e2, RecordPlaces(m.authority))
            e4 == EndOf(e3, RecordPlaces(m.additional))
        IN  /\ ps # <<>> => ps[1].offset = HEADER_LEN
            /\ \A i \in 2..Len(ps) : ps[i].offset = ps[i - 1].offset + ps[i - 1].len
            /\ \A i \in 1..Len(ps) : ps[i].offset + ps[i].len <= Len(buf)
            /\ m.question.end_offset = e1 /\ m.answer.end_offset = e2
            /\ m.authority.end_offset = e3 /\ m.additional.end_offset = e4
            /\ m.question.count = h.qd_count /\ m.answer.count = h.an_count
            /\ m.authority.count = h.ns_count /\ m.additional.count = h.ar_count

C25_EntriesTileUpTo64K == Len(buf) <= 65535 => C25_EntriesTile

(* Five questions and ten records in each record section.                  *)
C25_Witness ==
    /\ RefAccepted
    /\ mref.mref.question.count = 1 /\ mref.mref.answer.count = 10
    /\ mref.mref.authority.count = 10 /\ mref.mref.additional.count = 10
    /\ mref.mref.additional.end_offset = Len(buf)

C25_EmptySectionWitness ==
    /\ RefAccepted
    /\ mref.mref.question.count = 2 /\ mref.mref.answer.count = 1
    /\ mref.mref.authority.count = 0 /\ mref.mref.additional.count = 1
    /\ mref.mref.authority.end_offset = mref.mref.answer.end_offset
    /\ mref.mref.additional.end_offset = Len(buf)

-----------------------------------------------------------------------------
(* True positions: the entries found by walking the buffer from byte 12    *)
(* with offsets and lengths of any size.                                   *)

NoPlaces == [ok |-> FALSE, places |-> <<>>]

RECURSIVE TruePlaces(_, _, _, _, _)
TruePlaces(b, questions, records, from, places) ==
    IF questions = 0 /\ records = 0 THEN [ok |-> TRUE, places |-> places]
    ELSE
    LET wl == IF questions > 0 THEN question_wire_length_at(b, from)
              ELSE resource_record_wire_length_at(b, from)
    IN  IF ~wl.ok THEN NoPlaces
        ELSE TruePlaces(b, IF questions > 0 THEN questions - 1 ELSE 0,
                        IF questions > 0 THEN records ELSE records - 1,
                        from + wl.len, Append(places, Place(from, wl.len)))

(* C26: no offset or length recorded by decode_message_ref is altered by   *)
(* its 16-bit representation: for every buffer it accepts, each entry's    *)
(* recorded len is the entry's true wire length (name + 4, or name + 10 +  *)
(* RDLENGTH) and each recorded offset is the true byte position, with no   *)
(* truncation by the cast to MsgOffset and no saturation of the running    *)
(* offset.                                                                 *)
C26_RecordedIsTrue ==
    RefAccepted =>
        LET m == mref.mref
            t == TruePlaces(buf, m.question.count,
                            m.answer.count + m.authority.count + m.additional.count,
                            HEADER_LEN, <<>>)
        IN  /\ t.ok
            /\ RefPlaces(m) = t.places
            /\ m.additional.end_offset = EndOf(HEADER_LEN, t.places)

C26_RecordedIsTrueUpTo64K == Len(buf) <= 65535 => C26_RecordedIsTrue

-----------------------------------------------------------------------------
(* The Ref layer against the name codec, on one buffer and start offset.   *)

Measured == mode = "name" /\ pc = "sized"

(* The element refs recorded for the decoded name: the kinds of the        *)
(* decoded elements in order, each at the offset of its first byte.        *)
RefsOf(elements, from) ==
    [i \in 1..Len(elements) |-> ElemRef(elements[i].kind, from + Spans(elements, i - 1))]

(* C27: name_wire_length_at returns the byte count decode_name reports and *)
(* fails, with InsufficientData, exactly when decode_name fails; for a     *)
(* name of at most 10 elements NameRef::from_buf records the same element  *)
(* kinds in the same order, each at the offset of its first byte, with     *)
(* end_offset = start + that byte count; a measured record is name length  *)
(* + 10 + the big-endian RDLENGTH read at name end + 8.                    *)
C27_RefMeasuresAsCodec ==
    Measured =>
        /\ meas.name_len.ok <=> nres.ok
        /\ nres.ok => meas.name_len.len = nres.len
        /\ ~nres.ok => meas.name_len.err = InsufficientData
        /\ (nres.ok /\ Len(nres.elements) <= MAX_NAME_ELEMENTS) =>
               /\ meas.name_ref.ok
               /\ meas.name_ref.name.count = Len(nres.elements)
               /\ SubSeq(meas.name_ref.name.elements, 1, Len(nres.elements))
                      = RefsOf(nres.elements, start)
               /\ meas.name_ref.name.end_offset = start + nres.len
        /\ meas.record_len.ok =>
               /\ nres.ok
               /\ meas.record_len.len =
                      nres.len + 10 + At(buf, start + nres.len + 8) * 256
                      + At(buf, start + nres.len + 9)

C27_RefMeasuresAsCodecUpTo64K == Len(buf) <= 65535 => C27_RefMeasuresAsCodec

(* A label, a reserved byte and a pointer, followed by a record's fields.  *)
C27_Witness ==
    /\ Measured /\ nres.ok /\ start = 0
    /\ Len(nres.elements) = 3 /\ nres.len = 7
    /\ meas.name_len = LenOk(7)
    /\ meas.name_ref.ok /\ meas.name_ref.name.count = 3
    /\ meas.name_ref.name.elements[2] = ElemRef("Reserved", 4)
    /\ meas.name_ref.name.elements[3] = ElemRef("Pointer", 5)
    /\ meas.record_len = LenOk(18)

(* A record with 258 bytes of RDATA; a name of ten elements measured from  *)
(* inside the buffer; a failing name.                                      *)
C27_RecordWitness ==
    /\ Measured /\ nres.ok /\ meas.record_len = LenOk(269)

C27_TenElementsWitness ==
    /\ Measured /\ nres.ok /\ start = 2 /\ Len(nres.elements) = 10
    /\ meas.name_ref.ok /\ meas.name_ref.name.elements[10] = ElemRef("Root", 20)

C27_FailureWitness ==
    /\ Measured /\ ~nres.ok /\ start > 0 /\ start < Len(buf)
    /\ meas.name_len = LenErr(InsufficientData)

-----------------------------------------------------------------------------
(* One ref materialised against a buffer of the caller's choice.           *)

EntryDone == mode = "decode" /\ pc = "entry"

(* Where the ref handed over points.                                       *)
EntryOffset ==
    IF arg.kind = "question_ref" THEN arg.entries[1].offset
    ELSE ResourceRecordRef_offset(arg.entries[1])

(* C28: QuestionRef::decode_question and                                   *)
(* ResourceRecordRef::decode_resource_record return a value or an Error    *)
(* for every buffer passed to them, a buffer other than the one the ref    *)
(* was built from and shorter than the ref's recorded offset included:     *)
(* they do not abort.                                                      *)
C28_MaterializeNeverAborts == EntryDone => rec.err # Panic

(* The same for the buffers that reach the ref's recorded offset.          *)
C28_MaterializeWithinBuffer ==
    (EntryDone /\ EntryOffset <= Len(arg.bytes)) => rec.err # Panic

(* A buffer shorter than the recorded offset aborts both.                  *)
C28_ShortBufferAborts ==
    (EntryDone /\ EntryOffset > Len(arg.bytes)) => rec.err = Panic

C28_Witness ==
    /\ EntryDone /\ arg.kind = "record_ref" /\ arg.bytes # buf
    /\ EntryOffset > HEADER_LEN /\ EntryOffset <= Len(arg.bytes)
    /\ ~rec.ok /\ rec.err = InsufficientData

C28_ValueWitness ==
    /\ EntryDone /\ arg.kind = "question_ref" /\ arg.bytes # buf /\ rec.ok

C28_AbortWitness ==
    /\ EntryDone /\ arg.kind = "question_ref" /\ arg.bytes = <<>> /\ rec.err = Panic

-----------------------------------------------------------------------------
(* The two message decoders on the same buffer.                            *)

(* Whether a decoded message fits the Ref layer: at most 5 questions, at   *)
(* most 10 records in each record section, and at most 10 elements in     *)
(* every record name.                                                      *)
WithinCapacity(m) ==
    /\ m.header.qd_count <= MAX_QUESTIONS
    /\ m.header.an_count <= MAX_RECORDS
    /\ m.header.ns_count <= MAX_RECORDS
    /\ m.header.ar_count <= MAX_RECORDS
    /\ \A i \in 1..Len(AllRecords(m)) : Len(AllRecords(m)[i].rr_name) <= MAX_NAME_ELEMENTS

(* C29: for every buffer of at most 65535 bytes decode_message_ref         *)
(* succeeds if and only if decode_message succeeds and QDCOUNT <= 5,       *)
(* ANCOUNT, NSCOUNT and ARCOUNT are each <= 10 and every record name has   *)
(* at most 10 elements: the two decoders disagree about success only on    *)
(* inputs exceeding a Ref-layer capacity.                                  *)
C29_RefSucceedsWithinCapacity ==
    (RefDone /\ Len(buf) <= 65535) =>
        (mref.ok <=> (msg.ok /\ WithinCapacity(msg.message)))

(* Both succeed on a message filling every record section to its capacity *)
(* and on a question name of more than ten elements; the decoders disagree *)
(* on six questions, on eleven answers, and on a record name of eleven     *)
(* elements; both fail on a cut buffer.                                    *)
C29_Witness ==
    /\ RefDone /\ msg.ok /\ mref.ok /\ Len(buf) <= 65535
    /\ msg.message.header.an_count = MAX_RECORDS
    /\ msg.message.header.ns_count = MAX_RECORDS
    /\ msg.message.header.ar_count = MAX_RECORDS

C29_LongQuestionNameWitness ==
    /\ RefDone /\ msg.ok /\ mref.ok /\ Len(buf) <= 65535
    /\ \E i \in 1..Len(msg.message.question) :
           Len(msg.message.question[i].q_name) > MAX_NAME_ELEMENTS

C29_QuestionsWitness ==
    RefDone /\ msg.ok /\ ~mref.ok /\ msg.message.header.qd_count = MAX_QUESTIONS + 1

C29_RecordsWitness ==
    /\ RefDone /\ msg.ok /\ ~mref.ok
    /\ msg.message.header.qd_count <= MAX_QUESTIONS
    /\ msg.message.header.an_count = MAX_RECORDS + 1

C29_NameWitness ==
    /\ RefDone /\ msg.ok /\ ~mref.ok
    /\ msg.message.header.qd_count <= MAX_QUESTIONS
    /\ msg.message.header.an_count <= MAX_RECORDS
    /\ msg.message.header.ns_count <= MAX_RECORDS
    /\ msg.message.header.ar_count <= MAX_RECORDS

C29_BothFailWitness ==
    RefDone /\ hdr.ok /\ hdr.header.an_count = 2 /\ ~msg.ok /\ ~mref.ok

-----------------------------------------------------------------------------
(* One record encoded, then decoded from the bytes written.                *)

RecordEncoded ==
    mode = "encode" /\ arg.kind = "record" /\ pc \in {"encoded", "decoded"} /\ enc.ok

RecordDecoded == mode = "encode" /\ arg.kind = "record" /\ pc = "decoded"

(* No Reserved element, one Root or Pointer and that one last, every       *)
(* label's length field equal to its payload length in 1..63, every        *)
(* pointer below 2^14.                                                     *)
WellFormedName(name) ==
    /\ name # <<>>
    /\ \A i \in 1..Len(name) :
           /\ name[i].kind # "Reserved"
           /\ (name[i].kind \in {"Root", "Pointer"}) <=> (i = Len(name))
           /\ name[i].kind = "Label" =>
                  (name[i].length = Len(name[i].data) /\ name[i].length \in 1..63)
           /\ name[i].kind = "Pointer" => name[i].ptr \in 0..16383

WellFormedRecord(r) == WellFormedName(r.rr_name) /\ r.rr_rd_length = Len(r.rr_data)

(* The fields of a record that src/ reads and writes byte by byte; the     *)
(* bytes of a type or class code are mapped by dns_message.                *)
WireFields(r) ==
    [rr_name |-> r.rr_name, rr_ttl |-> r.rr_ttl, rr_rd_length |-> r.rr_rd_length,
     rr_data |-> r.rr_data]

(* The bytes of a record with rr_rd_length and every label.length as given. *)
RecordAsGiven(r) ==
    (((NameBytesOf(r.rr_name) \o AnyCode) \o AnyCode)
     \o (U32Bytes(r.rr_ttl) \o Bytes2(r.rr_rd_length)))
    \o r.rr_data

(* C30: encode_resource_record followed by decode_resource_record on the   *)
(* written bytes returns the same record and the same byte count, for      *)
(* every record whose name is well formed and whose rr_rd_length equals    *)
(* the length of rr_data; the encoder writes rr_rd_length and label.length *)
(* as given, without checking them against the payload lengths.            *)
C30_RecordRoundTrip ==
    /\ (RecordDecoded /\ WellFormedRecord(arg.entries[1])) =>
           /\ rec.ok
           /\ rec.len = enc.len
           /\ WireFields(rec.record) = WireFields(arg.entries[1])
    /\ RecordEncoded => Matches(SubSeq(enc.buf, 1, enc.len), RecordAsGiven(arg.entries[1]))

(* A label of 63 bytes, a pointer, a TTL of four different bytes and RDATA. *)
C30_Witness ==
    /\ RecordDecoded /\ WellFormedRecord(arg.entries[1]) /\ rec.ok
    /\ arg.entries[1].rr_name = <<Label(3, <<119, 119, 119>>), Pointer(12)>>
    /\ arg.entries[1].rr_ttl = BE32(255, 2, 3, 4)
    /\ arg.entries[1].rr_data = <<93, 184>>
    /\ rec.len = 18 /\ Len(buf) > 18

C30_LongLabelWitness ==
    /\ RecordDecoded /\ WellFormedRecord(arg.entries[1]) /\ rec.ok
    /\ arg.entries[1].rr_name[1].length = 63

(* RDLENGTH 3 written over two bytes of RDATA, and a label length 2 over a *)
(* payload of one byte: the decoder does not return the record.            *)
C30_AsGivenWitness ==
    /\ RecordDecoded
    /\ arg.entries[1].rr_rd_length = 3 /\ Len(arg.entries[1].rr_data) = 2
    /\ ~rec.ok

C30_LabelAsGivenWitness ==
    /\ RecordDecoded
    /\ arg.entries[1].rr_name = <<Label(2, <<97>>), Root>>
    /\ arg.entries[1].rr_rd_length = Len(arg.entries[1].rr_data)
    /\ At(enc.buf, 0) = 2
    /\ WireFields(rec.record) # WireFields(arg.entries[1])

====
